---- MODULE Spec2Model ----
(***************************************************************************)
(* Model of the gohci worker: the worker queue (enqueueCheck, wait,        *)
(* runJobRequest), the job pipeline goroutine (sync, checkout,             *)
(* parseConfig, runChecks) and the reporting loop of runJobRequestInner.   *)
(*                                                                         *)
(* worker side : src/cmd/gohci-worker/worker.go                            *)
(* job side    : src/unnamed/part_001 (job.go followed by server.go)       *)
(*                                                                         *)
(* Abstractions: command output text and wall-clock durations are not      *)
(* represented; a time.After timer may fire at any moment after it was     *)
(* armed; every external call (git, GitHub) terminates with a success flag *)
(* chosen nondeterministically.                                            *)
(***************************************************************************)
EXTENDS Integers, Sequences, FiniteSets, TLC

\* ---------------------------------------------------------------- bounds
NJobs == 2          \* webhooks that arrive during one run of the process
MaxChecks == 2      \* longest check list parseConfig returns
MaxFaults == 1      \* GitHub calls that fail during one run
MaxRepos == 2       \* secondary checkouts found under $GOPATH/src
MaxCmds == 2        \* commands one job runs through getCmd
MaxWorkers == 2     \* entries of the `workers` list of a .gohci.yml
MaxList == 14       \* longest check list whose result names are built
MaxMant == 10       \* multiples of a power of ten taken as durations

\* ------------------------------------------------------ program constants
ResultsCap == 16    \* results := make(chan gistFile, 16)

Jobs == 1..NJobs
NoJob == 0

VARIABLES
    \* environment, fixed during a run
    arrive,     \* jobs for which a webhook arrives
    lists,      \* lengths of the check lists parseConfig may resolve
    hashes,     \* whether webhooks carry a commit hash (TRUE) or not (FALSE)
    \* workerQueue
    mu,         \* w.mu: NoJob when unlocked, else the job whose goroutine holds it
    wg,         \* w.wg counter
    \* runServer / process
    spc,        \* "serving", "waiting" (in wg.Wait), "woken" (Wait returned), "returned"
    crashed,    \* the process panicked
    faults,     \* remaining GitHub calls allowed to fail
    \* enqueueCheck, one call per job
    epc,        \* position inside enqueueCheck
    pending,    \* outcome of the "pending" publish: "none", "ok", "fail"
    prior,      \* jobs still waiting for the mutex that were queued, their
                \* enqueueCheck having returned, when enqueueCheck was
                \* entered for the job (observation)
    \* runJobRequest goroutine
    rpc,        \* "none", "queued", "locked", "inner", "post", "done"
    \* pipeline goroutine of runJobRequestInner
    gpc,        \* "none", "sync", "checkout", "parse", "cc", "checks", "emit", "closed"
    results,    \* buffered content of the results channel
    closed,     \* close(results) happened
    checks,     \* number of checks parseConfig resolved
    chkIdx,     \* i of the range loop in runChecks
    cur,        \* result of the check that ran and is about to be sent
    \* reporting loop of runJobRequestInner
    lpc,        \* "none", "loop", "sendchecks", "ret"
    checkNum, failed, total,
    delay,      \* "nil" or "armed"
    armedAt,    \* which result created the timer in delay: its rank among
                \* the processed results, 0 when delay is nil
    status,     \* *github.RepoStatus: [state, desc]
    files,      \* gist.Files: names not yet accepted by GitHub
    \* transport and history (observation only)
    sent,       \* last status handed to CreateStatus
    pub,        \* last status accepted by CreateStatus
    flush,      \* what the latest step of the reporting loop flushed:
                \* [kind, files, ok], kind "none" when that step did not
                \* flush, ok the outcome of the gist edit
    processed,  \* result names the loop has processed
    attempted,  \* result names that were part of a flush attempt
    gisted,     \* result names GitHub accepted in a gist edit
    phases,     \* commands / phases the job executed, in order
    emitted,    \* results the pipeline goroutine sent, in order
    \* jobRequest.sync of one job: environment, fixed during a run
    primary,    \* os.Stat of the primary checkout: "present", "absent", "error"
    pullID,     \* j.pullID != 0
    repos,      \* secondary checkouts (.git directories) under $GOPATH/src
    \* jobRequest.sync: the consumer and the channel c
    syncPc,     \* "idle", "ranging" (for i := range c), "returned"
    syncOk,     \* `ok` of sync()
    items,      \* setupWorkResults received from c, in order: [from, ok]
    cClosed,    \* close(c) happened
    sendPanic,  \* a goroutine sent on c after close(c)
    \* jobRequest.syncParallel
    parPc,      \* "none", "assert", "failed", "walk", "bin", "wait", "err1", "closed"
    walked,     \* secondary checkouts the walk has reached
    err1,       \* filepath.Walk returned an error
    swg,        \* the local sync.WaitGroup
    \* goroutines started by syncParallel
    cfPc,       \* cloneOrFetch: "none", "stat", "clone", "sendclone", "fetch", "send", "done"
    cfOk,       \* outcome cloneOrFetch is about to send
    frPc,       \* fetchRepo goroutines: "none", "fetch", "rm", "checkout", "send", "done"
    frOk,       \* outcome a fetchRepo goroutine is about to send
    deleted,    \* checkouts removed by os.RemoveAll
    cmdFailed,  \* <<who, command>> of the commands and removals that failed
    \* the process-wide PATH, getCmd and newJobRequest
    PATH,       \* jobs whose bin directory is in front of the original value
    muCmd,      \* NoJob when unlocked, else the job whose getCmd holds it
    ppc,        \* "idle", "made", "run", "set", "command", "restore", "done"
    path,       \* j.path, in the representation of PATH
    oldpath,    \* local of getCmd
    ncmd,       \* commands the job has run
    resolved,   \* the PATH exec.Command (exec.LookPath) last used for the job
    \* jobRequest.parseConfig on its own
    cfgFile,    \* the repository's .gohci.yml: [state, version, workers]
    cfgName,    \* w.name, the name of this worker
    cfgOut,     \* what parseConfig returned: [note, checks]
    \* the result names of jobRequest.runChecks on their own
    nChecks,    \* len(checks)
    nameIdx,    \* i of the range loop
    names,      \* the names given to the results so far, in order
    \* the duration shown for a command
    dur,        \* the measured duration, in nanoseconds
    shown       \* [by, d]: the function that rounded it and what it returned

envVars    == <<arrive, lists, hashes>>
workerVars == <<mu, wg, spc, crashed, faults>>
enqVars    == <<epc, pending, prior>>
pipeVars   == <<gpc, results, closed, checks, chkIdx, cur>>
loopVars   == <<lpc, checkNum, failed, total, delay, armedAt, status, files>>
obsVars    == <<sent, pub, flush, processed, attempted, gisted>>
logVars    == <<phases, emitted>>
syncEnv    == <<primary, pullID, repos>>
syncVars   == <<syncPc, syncOk, items, cClosed, sendPanic, parPc, walked, err1, swg,
               cfPc, cfOk, frPc, frOk, deleted, cmdFailed>>
pathVars   == <<PATH, muCmd, ppc, path, oldpath, ncmd, resolved>>
jobVars    == <<envVars, workerVars, enqVars, rpc, pipeVars, loopVars, obsVars, logVars>>
funVars    == <<cfgFile, cfgName, cfgOut, nChecks, nameIdx, names, dur, shown>>
auxVars    == <<syncEnv, syncVars, pathVars, funVars>>
vars == <<jobVars, auxVars>>

\* ----------------------------------------------------------------- values
\* A status description: text, " FAILED" marker present, and the two numbers
\* of the suffix ("(a/b)" or "a out of b"); the elapsed time is left out.
Desc(text, mark, a, b) == <<text, mark, a, b>>
NoStatus == [state |-> "none", desc |-> Desc("none", FALSE, 0, 0)]
NoFlushing == [kind |-> "none", files |-> {}, ok |-> FALSE]
NoResult == [name |-> "none", idx |-> 0, success |-> TRUE]

\* gistFile{name, content, success, d}
gistFile(name, idx, ok) == [name |-> name, idx |-> idx, success |-> ok]

\* The process is running: it neither panicked nor left runServer.
Alive == ~crashed /\ spc # "returned"

\* A GitHub call may fail only while the fault budget lasts.
Outcomes == IF faults > 0 THEN BOOLEAN ELSE {TRUE}
Spend(oks) == faults - Cardinality({i \in DOMAIN oks : ~oks[i]})

\* Everything but the environment.
Start ==
    /\ mu = NoJob /\ wg = 0
    /\ spc = "serving" /\ crashed = FALSE
    /\ epc = [j \in Jobs |-> "idle"]
    /\ pending = [j \in Jobs |-> "none"]
    /\ prior = [j \in Jobs |-> {}]
    /\ rpc = [j \in Jobs |-> "none"]
    /\ gpc = [j \in Jobs |-> "none"]
    /\ results = [j \in Jobs |-> <<>>]
    /\ closed = [j \in Jobs |-> FALSE]
    /\ checks = [j \in Jobs |-> 0]
    /\ chkIdx = [j \in Jobs |-> 0]
    /\ cur = [j \in Jobs |-> NoResult]
    /\ lpc = [j \in Jobs |-> "none"]
    /\ checkNum = [j \in Jobs |-> 0]
    /\ failed = [j \in Jobs |-> 0]
    /\ total = [j \in Jobs |-> 0]
    /\ delay = [j \in Jobs |-> "nil"]
    /\ armedAt = [j \in Jobs |-> 0]
    /\ status = [j \in Jobs |-> NoStatus]
    /\ files = [j \in Jobs |-> {}]
    /\ sent = [j \in Jobs |-> NoStatus]
    /\ pub = [j \in Jobs |-> NoStatus]
    /\ flush = [j \in Jobs |-> NoFlushing]
    /\ processed = [j \in Jobs |-> {}]
    /\ attempted = [j \in Jobs |-> {}]
    /\ gisted = [j \in Jobs |-> {}]
    /\ phases = [j \in Jobs |-> <<>>]
    /\ emitted = [j \in Jobs |-> <<>>]

\* No sync() is being looked at.
SyncIdle ==
    /\ primary = "present" /\ pullID = FALSE /\ repos = {}
    /\ syncPc = "idle" /\ syncOk = TRUE /\ items = <<>>
    /\ cClosed = FALSE /\ sendPanic = FALSE
    /\ parPc = "none" /\ walked = {} /\ err1 = FALSE /\ swg = 0
    /\ cfPc = "none" /\ cfOk = TRUE
    /\ frPc = [r \in 1..MaxRepos |-> "none"]
    /\ frOk = [r \in 1..MaxRepos |-> TRUE]
    /\ deleted = {} /\ cmdFailed = {}

\* PATH has the value the process was started with; no job exists.
PathIdle ==
    /\ PATH = {} /\ muCmd = NoJob
    /\ ppc = [j \in Jobs |-> "idle"]
    /\ path = [j \in Jobs |-> {}]
    /\ oldpath = [j \in Jobs |-> {}]
    /\ ncmd = [j \in Jobs |-> 0]
    /\ resolved = [j \in Jobs |-> {}]

\* A .gohci.yml as loadProjectConfig finds it, and what parseConfig returns.
ProjectFile(state, version, workers) ==
    [state |-> state, version |-> version, workers |-> workers]
NoOutput == [note |-> "none", checks |-> 0]
NoShown == [by |-> "none", d |-> 0]

\* No pure function is being looked at.
FunIdle ==
    /\ cfgFile = ProjectFile("absent", 0, <<>>)
    /\ cfgName = "" /\ cfgOut = NoOutput
    /\ nChecks = 0 /\ nameIdx = 0 /\ names = <<>>
    /\ dur = 0 /\ shown = NoShown

\* One job, any check list up to MaxChecks.
Init ==
    /\ arrive = {1}
    /\ lists = 0..MaxChecks
    /\ hashes = BOOLEAN
    /\ faults = MaxFaults
    /\ Start /\ SyncIdle /\ PathIdle /\ FunIdle

\* NJobs jobs arriving at any time through issue comments (the commit hash
\* has to be resolved), one check each, a reliable GitHub.
InitQueue ==
    /\ arrive = Jobs
    /\ lists = {1}
    /\ hashes = {FALSE}
    /\ faults = 0
    /\ Start /\ SyncIdle /\ PathIdle /\ FunIdle

\* ------------------------------------------------- workerQueue.enqueueCheck
\* Variant: enqueueCheck does not count itself.
enqueueAddMissing == wg

\* The counter after the `w.wg.Add(1)` that opens enqueueCheck.
enqueueAdd == wg + 1

\* w.wg.Add(1); defer w.wg.Done(); j := newJobRequest(...).  `given` tells
\* whether the webhook carried a commit hash (false for an issue comment).
\* Jobs are numbered in the order in which enqueueCheck is entered for them.
enqueueCheck(j, given) ==
    /\ Alive /\ epc[j] = "idle"
    /\ j \in arrive
    /\ \A k \in arrive : k < j => epc[k] # "idle"
    /\ given \in hashes
    /\ wg' = enqueueAdd
    /\ epc' = [epc EXCEPT ![j] = IF given THEN "gist" ELSE "hash"]
    /\ prior' = [prior EXCEPT ![j] =
                   {k \in Jobs : epc[k] = "returned" /\ rpc[k] = "queued"}]
    /\ UNCHANGED <<envVars, auxVars>>
    /\ UNCHANGED <<mu, spc, crashed, faults, pending, rpc,
                   pipeVars, loopVars, obsVars, logVars>>

\* The deferred w.wg.Done() of enqueueCheck, run by each of its returns.
enqueueDone == wg - 1

\* Variant: enqueueCheck goes on without a commit hash.
AfterHashGoesOn(found) == "gist"

\* `if commitHash == "" && !j.findCommitHash() { ...; return }`: where
\* enqueueCheck goes after the attempt to resolve the hash.
AfterHash(found) == IF found THEN "gist" ELSE "returned"

\* commitHash == "" && !j.findCommitHash(): assertDir, then `git ls-remote`
\* through j.run.  On failure enqueueCheck returns.
findCommitHash(j, dirok, ok) ==
    /\ Alive /\ epc[j] = "hash"
    /\ phases' = [phases EXCEPT ![j] =
                    IF dirok THEN Append(@, "ls-remote") ELSE @]
    /\ epc' = [epc EXCEPT ![j] = AfterHash(dirok /\ ok)]
    /\ wg' = IF epc'[j] = "returned" THEN enqueueDone ELSE wg
    /\ UNCHANGED <<envVars, auxVars>>
    /\ UNCHANGED <<mu, spc, crashed, faults, pending, prior, rpc,
                   pipeVars, loopVars, obsVars, emitted>>

\* w.client.Gists.Create with the "setup-0-metadata" file.
createGist(j, ok) ==
    /\ Alive /\ epc[j] = "gist"
    /\ faults' = Spend(<<ok>>)
    /\ IF ok
         THEN /\ epc' = [epc EXCEPT ![j] = "status"]
              /\ wg' = wg
         ELSE /\ epc' = [epc EXCEPT ![j] = "returned"]
              /\ wg' = enqueueDone
    /\ UNCHANGED <<envVars, auxVars>>
    /\ UNCHANGED <<mu, spc, crashed, pending, prior, rpc,
                   pipeVars, loopVars, obsVars, logVars>>

PendingStatus == [state |-> "pending", desc |-> Desc("Checks pending", FALSE, 0, 0)]

\* Variant: the job is queued whatever the pending publish returned.
MayQueueAlways(ok) == TRUE

\* The job is handed to a goroutine only when the pending publish succeeded:
\* `if !w.status(j, status) { return }`.
MayQueue(ok) == ok

\* status := {State: "pending", ...}; if !w.status(j, status) { return }
publishPending(j, ok) ==
    /\ Alive /\ epc[j] = "status"
    /\ faults' = Spend(<<ok>>)
    /\ status' = [status EXCEPT ![j] = PendingStatus]
    /\ sent' = [sent EXCEPT ![j] = PendingStatus]
    /\ pub' = IF ok THEN [pub EXCEPT ![j] = PendingStatus] ELSE pub
    /\ pending' = [pending EXCEPT ![j] = IF ok THEN "ok" ELSE "fail"]
    /\ IF MayQueue(ok)
         THEN /\ epc' = [epc EXCEPT ![j] = "spawn"]
              /\ wg' = wg
         ELSE /\ epc' = [epc EXCEPT ![j] = "returned"]
              /\ wg' = enqueueDone
    /\ UNCHANGED <<envVars, auxVars>>
    /\ UNCHANGED <<mu, spc, crashed, prior, rpc, pipeVars,
                   lpc, checkNum, failed, total, delay, armedAt, files,
                   flush, processed, attempted, gisted, logVars>>

\* Variant: the goroutine is started without w.wg.Add(1).
spawnAddMissing == wg

\* The counter after `w.wg.Add(1)` that precedes `go func() {...}()`.
spawnAdd == wg + 1

\* Variant: runJobRequest is called in place, so that the caller has to get
\* the mutex.
goReadyWhenFree == mu = NoJob

\* `go func() {...}()` starts the goroutine at once; w.mu.Lock() is called
\* in the new goroutine.
goReady == TRUE

\* w.wg.Add(1); go func() { defer w.wg.Done(); w.runJobRequest(...) }()
enqueueSpawn(j) ==
    /\ Alive /\ epc[j] = "spawn"
    /\ goReady
    /\ wg' = spawnAdd
    /\ rpc' = [rpc EXCEPT ![j] = "queued"]
    /\ epc' = [epc EXCEPT ![j] = "defer"]
    /\ UNCHANGED <<envVars, auxVars>>
    /\ UNCHANGED <<mu, spc, crashed, faults, pending, prior,
                   pipeVars, loopVars, obsVars, logVars>>

\* enqueueCheck returns after the spawn; its deferred w.wg.Done() runs.
enqueueReturn(j) ==
    /\ Alive /\ epc[j] = "defer"
    /\ wg' = enqueueDone
    /\ epc' = [epc EXCEPT ![j] = "returned"]
    /\ UNCHANGED <<envVars, auxVars>>
    /\ UNCHANGED <<mu, spc, crashed, faults, pending, prior, rpc,
                   pipeVars, loopVars, obsVars, logVars>>

\* ------------------------------------------------- runServer and wait
\* The fsnotify watcher reports a change of the executable or of gohci.yml;
\* runServer calls s.w.wait(), i.e. w.wg.Wait().
runServerEvent ==
    /\ Alive /\ spc = "serving"
    /\ spc' = "waiting"
    /\ UNCHANGED <<envVars, auxVars>>
    /\ UNCHANGED <<mu, wg, crashed, faults, enqVars, rpc,
                   pipeVars, loopVars, obsVars, logVars>>

\* w.wg.Wait() unblocks once the counter is zero.
WaitReady == wg = 0

wait ==
    /\ Alive /\ spc = "waiting"
    /\ WaitReady
    /\ spc' = "woken"
    /\ UNCHANGED <<envVars, auxVars>>
    /\ UNCHANGED <<mu, wg, crashed, faults, enqVars, rpc,
                   pipeVars, loopVars, obsVars, logVars>>

\* `return err` of runServer; mainImpl and main return, the process exits.
\* The HTTP server goroutine started by runServer is never stopped, so
\* webhooks are served until this point.
runServerReturn ==
    /\ Alive /\ spc = "woken"
    /\ spc' = "returned"
    /\ UNCHANGED <<envVars, auxVars>>
    /\ UNCHANGED <<mu, wg, crashed, faults, enqVars, rpc,
                   pipeVars, loopVars, obsVars, logVars>>

\* ------------------------------------------------- workerQueue.runJobRequest
\* Variant: runJobRequest does not take the mutex.
MuFreeAlways == TRUE

\* w.mu.Lock() succeeds only while nobody holds the mutex.
MuFree == mu = NoJob

\* w.mu.Lock(); defer w.mu.Unlock()
runJobRequest(j) ==
    /\ Alive /\ rpc[j] = "queued"
    /\ MuFree
    /\ mu' = j
    /\ rpc' = [rpc EXCEPT ![j] = "locked"]
    /\ prior' = [i \in Jobs |-> IF i = j THEN {} ELSE prior[i] \ {j}]
    /\ UNCHANGED <<envVars, auxVars>>
    /\ UNCHANGED <<wg, spc, crashed, faults, epc, pending,
                   pipeVars, loopVars, obsVars, logVars>>

\* Entry of runJobRequestInner: w.wg.Add(1), the results channel, the
\* pipeline goroutine, then status.Description = "Setting up"; w.status(...).
runJobRequestInner(j, ok) ==
    /\ Alive /\ rpc[j] = "locked"
    /\ wg' = wg + 1
    /\ faults' = Spend(<<ok>>)
    /\ rpc' = [rpc EXCEPT ![j] = "inner"]
    /\ gpc' = [gpc EXCEPT ![j] = "sync"]
    /\ lpc' = [lpc EXCEPT ![j] = "loop"]
    /\ LET st == [status[j] EXCEPT !.desc = Desc("Setting up", FALSE, 0, 0)]
       IN /\ status' = [status EXCEPT ![j] = st]
          /\ sent' = [sent EXCEPT ![j] = st]
          /\ pub' = IF ok THEN [pub EXCEPT ![j] = st] ELSE pub
    /\ UNCHANGED <<envVars, auxVars>>
    /\ UNCHANGED <<mu, spc, crashed, enqVars,
                   results, closed, checks, chkIdx, cur,
                   checkNum, failed, total, delay, armedAt, files,
                   flush, processed, attempted, gisted, logVars>>

\* The goroutine of a job ends: its locals, its gist and status objects and
\* what was observed of it are dropped.
Forget(j) ==
    /\ results' = [results EXCEPT ![j] = <<>>]
    /\ closed' = [closed EXCEPT ![j] = FALSE]
    /\ checks' = [checks EXCEPT ![j] = 0]
    /\ chkIdx' = [chkIdx EXCEPT ![j] = 0]
    /\ cur' = [cur EXCEPT ![j] = NoResult]
    /\ checkNum' = [checkNum EXCEPT ![j] = 0]
    /\ failed' = [failed EXCEPT ![j] = 0]
    /\ total' = [total EXCEPT ![j] = 0]
    /\ delay' = [delay EXCEPT ![j] = "nil"]
    /\ armedAt' = [armedAt EXCEPT ![j] = 0]
    /\ status' = [status EXCEPT ![j] = NoStatus]
    /\ files' = [files EXCEPT ![j] = {}]
    /\ sent' = [sent EXCEPT ![j] = NoStatus]
    /\ pub' = [pub EXCEPT ![j] = NoStatus]
    /\ flush' = [flush EXCEPT ![j] = NoFlushing]
    /\ processed' = [processed EXCEPT ![j] = {}]
    /\ attempted' = [attempted EXCEPT ![j] = {}]
    /\ gisted' = [gisted EXCEPT ![j] = {}]
    /\ phases' = [phases EXCEPT ![j] = <<>>]
    /\ emitted' = [emitted EXCEPT ![j] = <<>>]

\* runJobRequest after runJobRequestInner returned: the deferred
\* w.mu.Unlock(), then the deferred w.wg.Done() of the goroutine.
runJobRequestDone(j) ==
    /\ Alive /\ rpc[j] = "post"
    /\ mu' = NoJob
    /\ wg' = wg - 1
    /\ rpc' = [rpc EXCEPT ![j] = "done"]
    /\ Forget(j)
    /\ UNCHANGED <<envVars, auxVars>>
    /\ UNCHANGED <<spc, crashed, faults, enqVars, gpc, lpc>>

\* ------------------------------------------------- the pipeline goroutine
\* results <- r
Send(j, r) ==
    /\ Len(results[j]) < ResultsCap
    /\ results' = [results EXCEPT ![j] = Append(@, r)]
    /\ emitted' = [emitted EXCEPT ![j] = Append(@, r)]

\* Variant: the `if !ok { return }` after a setup phase is missing.
AbortNever(ok) == FALSE

\* A failed setup phase makes the goroutine return (defer close(results)).
Abort(ok) == ~ok

\* Variant: the goroutine resolves the checks right after the sync.
PhaseAfterSyncSkips == "parse"

\* What follows a successful phase 1: "Phase 2: checkout".
PhaseAfterSync == "checkout"

\* Phase 1: content, ok := j.sync(); results <- {"setup-1-sync", ...}
pipeSync(j, ok) ==
    /\ Alive /\ gpc[j] = "sync"
    /\ phases' = [phases EXCEPT ![j] = Append(@, "sync")]
    /\ Send(j, gistFile("setup-1-sync", 0, ok))
    /\ IF Abort(ok)
         THEN /\ gpc' = [gpc EXCEPT ![j] = "closed"]
              /\ closed' = [closed EXCEPT ![j] = TRUE]
         ELSE /\ gpc' = [gpc EXCEPT ![j] = PhaseAfterSync]
              /\ closed' = closed
    /\ UNCHANGED <<envVars, auxVars>>
    /\ UNCHANGED <<workerVars, enqVars, rpc, checks, chkIdx, cur,
                   loopVars, obsVars>>

\* Phase 2: content, ok = j.checkout(); results <- {"setup-2-get", ...}
pipeCheckout(j, ok) ==
    /\ Alive /\ gpc[j] = "checkout"
    /\ phases' = [phases EXCEPT ![j] = Append(@, "checkout")]
    /\ Send(j, gistFile("setup-2-get", 0, ok))
    /\ IF Abort(ok)
         THEN /\ gpc' = [gpc EXCEPT ![j] = "closed"]
              /\ closed' = [closed EXCEPT ![j] = TRUE]
         ELSE /\ gpc' = [gpc EXCEPT ![j] = "parse"]
              /\ closed' = closed
    /\ UNCHANGED <<envVars, auxVars>>
    /\ UNCHANGED <<workerVars, enqVars, rpc, checks, chkIdx, cur,
                   loopVars, obsVars>>

\* Phase 3: chks, note := j.parseConfig(w.name).  The list comes from the
\* repository's .gohci.yml (any length, also empty) or is the default one.
\* The goroutine then blocks in `cc <- up{chks, note}`.
parseConfig(j, n) ==
    /\ Alive /\ gpc[j] = "parse"
    /\ phases' = [phases EXCEPT ![j] = Append(@, "parse")]
    /\ n \in lists
    /\ checks' = [checks EXCEPT ![j] = n]
    /\ gpc' = [gpc EXCEPT ![j] = "cc"]
    /\ UNCHANGED <<envVars, auxVars>>
    /\ UNCHANGED <<workerVars, enqVars, rpc, results, closed, chkIdx, cur,
                   loopVars, obsVars, emitted>>

\* Variant: runChecks stops at the first failing check.
MoreChecksUntilFailure(i, n, ok2) == i < n /\ ok2

\* runChecks goes on with the next check whatever the previous one returned
\* ("Still run the other tests").
MoreChecks(i, n, ok2) == i < n

\* Phase 4, `stdout, ok2 := j.run(...)` for check i+1.
runChecks(j, ok2) ==
    /\ Alive /\ gpc[j] = "checks"
    /\ chkIdx[j] < checks[j]
    /\ phases' = [phases EXCEPT ![j] = Append(@, "check")]
    /\ cur' = [cur EXCEPT ![j] = gistFile("cmd", chkIdx[j] + 1, ok2)]
    /\ gpc' = [gpc EXCEPT ![j] = "emit"]
    /\ UNCHANGED <<envVars, auxVars>>
    /\ UNCHANGED <<workerVars, enqVars, rpc, results, closed, checks, chkIdx,
                   loopVars, obsVars, emitted>>

\* Phase 4, `results <- gistFile{"cmd%0*d", ...}` and the loop increment.
runChecksEmit(j) ==
    /\ Alive /\ gpc[j] = "emit"
    /\ Send(j, cur[j])
    /\ IF MoreChecks(chkIdx[j] + 1, checks[j], cur[j].success)
         THEN chkIdx' = [chkIdx EXCEPT ![j] = @ + 1]
         ELSE chkIdx' = [chkIdx EXCEPT ![j] = checks[j]]
    /\ gpc' = [gpc EXCEPT ![j] = "checks"]
    /\ UNCHANGED <<envVars, auxVars>>
    /\ UNCHANGED <<workerVars, enqVars, rpc, closed, checks, cur,
                   loopVars, obsVars, phases>>

\* runChecks returned: the goroutine ends, defer close(results).
pipeClose(j) ==
    /\ Alive /\ gpc[j] = "checks"
    /\ chkIdx[j] >= checks[j]
    /\ gpc' = [gpc EXCEPT ![j] = "closed"]
    /\ closed' = [closed EXCEPT ![j] = TRUE]
    /\ UNCHANGED <<envVars, auxVars>>
    /\ UNCHANGED <<workerVars, enqVars, rpc, results, checks, chkIdx, cur,
                   loopVars, obsVars, logVars>>

\* ------------------------------------------------- the reporting loop
\* The key of gist.Files: r.name, plus " FAILED" for a failing result.
FileName(r) == [name |-> r.name, idx |-> r.idx, failed |-> ~r.success]

\* Variant: firstFailure is never set.
FirstFailureNever(r, f) == FALSE

\* Variant: firstFailure is set for every failing result.
FirstFailureEvery(r, f) == ~r.success

\* Variant: firstFailure is set for the first two failing results.
FirstFailureTwice(r, f) == ~r.success /\ f <= 1

\* `if failed == 0 { firstFailure = true }` under `if !r.success`.
FirstFailure(r, f) == ~r.success /\ f = 0

\* Variant: a failing result is not counted.
CountFailedNever(r, f) == f

\* `failed++` under `if !r.success`.
CountFailed(r, f) == IF r.success THEN f ELSE f + 1

\* Variant: status.State is not set to "failure" for a failing result.
NewStateKept(r, old, f1, cn, tot) ==
    IF tot # 0 /\ cn = tot /\ f1 = 0 THEN "success" ELSE old

\* Variant: the last check sets "success" whatever failed before.
NewStateLastWins(r, old, f1, cn, tot) ==
    IF tot # 0 /\ cn = tot /\ r.success THEN "success"
    ELSE IF ~r.success THEN "failure"
    ELSE old

\* status.State after a result: "failure" for a failing result; "success"
\* when the result is taken for the last check and nothing failed.
NewState(r, old, f1, cn, tot) ==
    IF tot # 0 /\ cn = tot /\ f1 = 0 THEN "success"
    ELSE IF ~r.success THEN "failure"
    ELSE old

\* statusDesc + suffix, from total, checkNum and the updated failed count.
NewDesc(f1, cn, tot) ==
    IF tot # 0
      THEN IF cn # tot
             THEN Desc("Running", f1 # 0, cn, tot)
             ELSE IF f1 = 0 THEN Desc("Success", FALSE, tot, tot)
                            ELSE Desc("FAILED", FALSE, f1, tot)
      ELSE Desc("Setting up", f1 # 0, 0, 0)

\* `checkNum++` in the mid-run branch.
NewCheckNum(cn, tot) == IF tot # 0 /\ cn # tot THEN cn + 1 ELSE cn

\* Variant: the timer is never armed.
ArmDelayNever(d) == d

\* What the timer variable becomes after a result that was not flushed
\* at once: `else if delay == nil { delay = time.After(time.Second) }`.
ArmDelay(d) == IF d = "nil" THEN "armed" ELSE d

\* The timer delay holds after `else if delay == nil { delay = time.After(...) }`
\* run for the n-th result: a new one when there was none, else the old one.
TimerOf(d, at, n) == IF d = "nil" THEN n ELSE at

\* The timer delay holds after a flush: none once `delay = nil` was run.
TimerAfterFlush(d, at) == IF d = "nil" THEN 0 ELSE at

\* Variant: gist() never empties gist.Files.
gistFilesKept(gok, fl) == fl

\* gist.Files when gist() returns: `gist.Files = map[...]{}` is reached only
\* when Gists.Edit returned no error.
gistFiles(gok, fl) == IF gok THEN {} ELSE fl

\* w.gist(gist); w.status(j, status).
Flush(j, kind, st, fl, gok, sok) ==
    /\ faults' = Spend(<<gok, sok>>)
    /\ faults' >= 0
    /\ files' = [files EXCEPT ![j] = gistFiles(gok, fl)]
    /\ sent' = [sent EXCEPT ![j] = st]
    /\ pub' = IF sok THEN [pub EXCEPT ![j] = st] ELSE pub
    /\ flush' = [flush EXCEPT ![j] = [kind |-> kind, files |-> fl, ok |-> gok]]
    /\ attempted' = [attempted EXCEPT ![j] = @ \cup fl]
    /\ gisted' = IF gok THEN [gisted EXCEPT ![j] = @ \cup fl] ELSE gisted

NoFlush(j, fl) ==
    /\ files' = [files EXCEPT ![j] = fl]
    /\ flush' = [flush EXCEPT ![j] = NoFlushing]
    /\ UNCHANGED <<faults, sent, pub, attempted, gisted>>

\* Variant: after a flush that failed the timer is left (or put) pending, so
\* that the flush is done again.
DelayAfterFlushRetry(gok, sok) == IF gok /\ sok THEN "nil" ELSE "armed"

\* `delay = nil` after w.gist(gist); w.status(j, status), whose results are
\* not looked at.
DelayAfterFlush(gok, sok) == "nil"

\* case <-delay: w.gist(gist); w.status(j, status); delay = nil
loopDelay(j, gok, sok) ==
    /\ Alive /\ lpc[j] = "loop"
    /\ delay[j] = "armed"
    /\ Flush(j, "timer", status[j], files[j], gok, sok)
    /\ delay' = [delay EXCEPT ![j] = DelayAfterFlush(gok, sok)]
    /\ armedAt' = [armedAt EXCEPT ![j] = TimerAfterFlush(delay'[j], @)]
    /\ UNCHANGED <<envVars, auxVars>>
    /\ UNCHANGED <<mu, wg, spc, crashed, enqVars, rpc, pipeVars,
                   lpc, checkNum, failed, total, status, processed, logVars>>

\* case c := <-cc: total = len(c.checks).  The receive releases the pipeline
\* goroutine, which goes on to runChecks.
loopRecvChecks(j) ==
    /\ Alive /\ lpc[j] = "loop"
    /\ gpc[j] = "cc"
    /\ total' = [total EXCEPT ![j] = checks[j]]
    /\ gpc' = [gpc EXCEPT ![j] = "checks"]
    /\ lpc' = [lpc EXCEPT ![j] = "sendchecks"]
    /\ UNCHANGED <<envVars, auxVars>>
    /\ flush' = [flush EXCEPT ![j] = NoFlushing]
    /\ UNCHANGED <<workerVars, enqVars, rpc, results, closed, checks, chkIdx,
                   cur, checkNum, failed, delay, armedAt, status, files,
                   sent, pub, processed, attempted, gisted, logVars>>

\* ... results <- gistFile{"setup-3-checks", ..., true, 0}, sent by the loop
\* itself.  A send on a closed channel panics.
loopSendChecks(j) ==
    /\ Alive /\ lpc[j] = "sendchecks"
    /\ IF closed[j]
         THEN /\ crashed' = TRUE
              /\ UNCHANGED <<results, lpc>>
         ELSE /\ Len(results[j]) < ResultsCap
              /\ results' = [results EXCEPT ![j] =
                               Append(@, gistFile("setup-3-checks", 0, TRUE))]
              /\ lpc' = [lpc EXCEPT ![j] = "loop"]
              /\ crashed' = crashed
    /\ UNCHANGED <<envVars, auxVars>>
    /\ flush' = [flush EXCEPT ![j] = NoFlushing]
    /\ UNCHANGED <<mu, wg, spc, faults, enqVars, rpc,
                   gpc, closed, checks, chkIdx, cur,
                   checkNum, failed, total, delay, armedAt, status, files,
                   sent, pub, processed, attempted, gisted, logVars>>

\* case r, ok := <-results with ok true: one result is processed.
loopResult(j, gok, sok) ==
    /\ Alive /\ lpc[j] = "loop"
    /\ results[j] # <<>>
    /\ LET r   == Head(results[j])
           f1  == CountFailed(r, failed[j])
           st  == [state |-> NewState(r, status[j].state, f1, checkNum[j], total[j]),
                   desc  |-> NewDesc(f1, checkNum[j], total[j])]
           fl  == files[j] \cup {FileName(r)}
       IN /\ results' = [results EXCEPT ![j] = Tail(@)]
          /\ failed' = [failed EXCEPT ![j] = f1]
          /\ checkNum' = [checkNum EXCEPT ![j] = NewCheckNum(@, total[j])]
          /\ status' = [status EXCEPT ![j] = st]
          /\ processed' = [processed EXCEPT ![j] = @ \cup {FileName(r)}]
          /\ IF FirstFailure(r, failed[j])
               THEN /\ Flush(j, "immediate", st, fl, gok, sok)
                    /\ delay' = [delay EXCEPT ![j] = DelayAfterFlush(gok, sok)]
                    /\ armedAt' = [armedAt EXCEPT ![j] = TimerAfterFlush(delay'[j], @)]
               ELSE /\ gok /\ sok
                    /\ NoFlush(j, fl)
                    /\ delay' = [delay EXCEPT ![j] = ArmDelay(@)]
                    /\ armedAt' = [armedAt EXCEPT ![j] =
                                     TimerOf(delay[j], @, Cardinality(processed'[j]))]
    /\ UNCHANGED <<envVars, auxVars>>
    /\ UNCHANGED <<mu, wg, spc, crashed, enqVars, rpc,
                   gpc, closed, checks, chkIdx, cur, lpc, total, logVars>>

\* Variant: the receive reports the close while results are still buffered.
ResultsClosedUndrained(res, cl) == cl

\* `r, ok := <-results` yields ok false: the channel was closed and every
\* buffered result was received.
ResultsClosed(res, cl) == cl /\ res = <<>>

\* Variant: a last update is made whenever the channel closes.
FinalFlushAlways(d) == TRUE

\* Variant: no last update when the channel closes.
FinalFlushNever(d) == FALSE

\* `if delay != nil` of the closed-channel branch.
FinalFlush(d) == d # "nil"

\* case r, ok := <-results with ok false: the channel is closed and drained.
\* One last update if a flush is pending, `return failed != 0`, and the
\* deferred w.wg.Done() of runJobRequestInner.
loopClosed(j, gok, sok) ==
    /\ Alive /\ lpc[j] = "loop"
    /\ ResultsClosed(results[j], closed[j])
    /\ IF FinalFlush(delay[j])
         THEN Flush(j, "final", status[j], files[j], gok, sok)
         ELSE /\ gok /\ sok
              /\ NoFlush(j, files[j])
    /\ lpc' = [lpc EXCEPT ![j] = "ret"]
    /\ rpc' = [rpc EXCEPT ![j] = "post"]
    /\ wg' = wg - 1
    /\ UNCHANGED <<envVars, auxVars>>
    /\ UNCHANGED <<mu, spc, crashed, enqVars, pipeVars,
                   checkNum, failed, total, delay, armedAt, status, processed, logVars>>

\* ------------------------------------------------- the system
\* The steps of the jobs.
JobNext ==
    \/ \E j \in Jobs, given \in BOOLEAN : enqueueCheck(j, given)
    \/ \E j \in Jobs, dirok \in BOOLEAN, ok \in BOOLEAN : findCommitHash(j, dirok, ok)
    \/ \E j \in Jobs, ok \in Outcomes : createGist(j, ok)
    \/ \E j \in Jobs, ok \in Outcomes : publishPending(j, ok)
    \/ \E j \in Jobs : enqueueSpawn(j)
    \/ \E j \in Jobs : enqueueReturn(j)
    \/ \E j \in Jobs : runJobRequest(j)
    \/ \E j \in Jobs, ok \in Outcomes : runJobRequestInner(j, ok)
    \/ \E j \in Jobs : runJobRequestDone(j)
    \/ \E j \in Jobs, ok \in BOOLEAN : pipeSync(j, ok)
    \/ \E j \in Jobs, ok \in BOOLEAN : pipeCheckout(j, ok)
    \/ \E j \in Jobs, n \in 0..MaxChecks : parseConfig(j, n)
    \/ \E j \in Jobs, ok2 \in BOOLEAN : runChecks(j, ok2)
    \/ \E j \in Jobs : runChecksEmit(j)
    \/ \E j \in Jobs : pipeClose(j)
    \/ \E j \in Jobs, gok \in Outcomes, sok \in Outcomes : loopDelay(j, gok, sok)
    \/ \E j \in Jobs : loopRecvChecks(j)
    \/ \E j \in Jobs : loopSendChecks(j)
    \/ \E j \in Jobs, gok \in Outcomes, sok \in Outcomes : loopResult(j, gok, sok)
    \/ \E j \in Jobs, gok \in Outcomes, sok \in Outcomes : loopClosed(j, gok, sok)

\* The steps of runServer.
ServerNext ==
    \/ runServerEvent
    \/ wait
    \/ runServerReturn

Next == JobNext \/ ServerNext

\* One job from webhook to completion, GitHub calls may fail.
Spec == Init /\ [][JobNext]_vars

\* The worker process: several webhooks, the mutex, the wait group and the
\* exit of runServer.
SpecQueue == InitQueue /\ [][Next]_vars

\* ------------------------------------------------- a long check list
\* The shortest check list that, together with the two setup results, fills
\* the results channel and has one more result to send.
BurstChecks == ResultsCap - 1

\* One job with a commit hash, a list of BurstChecks checks, a reliable
\* GitHub.
InitBurst ==
    /\ arrive = {1}
    /\ lists = {BurstChecks}
    /\ hashes = {TRUE}
    /\ faults = 0
    /\ Start /\ SyncIdle /\ PathIdle /\ FunIdle

\* The steps of the job when every command and every GitHub call succeeds.
BurstNext ==
    \/ \E j \in Jobs : enqueueCheck(j, TRUE)
    \/ \E j \in Jobs : createGist(j, TRUE)
    \/ \E j \in Jobs : publishPending(j, TRUE)
    \/ \E j \in Jobs : enqueueSpawn(j)
    \/ \E j \in Jobs : enqueueReturn(j)
    \/ \E j \in Jobs : runJobRequest(j)
    \/ \E j \in Jobs : runJobRequestInner(j, TRUE)
    \/ \E j \in Jobs : runJobRequestDone(j)
    \/ \E j \in Jobs : pipeSync(j, TRUE)
    \/ \E j \in Jobs : pipeCheckout(j, TRUE)
    \/ \E j \in Jobs : parseConfig(j, BurstChecks)
    \/ \E j \in Jobs : runChecks(j, TRUE)
    \/ \E j \in Jobs : runChecksEmit(j)
    \/ \E j \in Jobs : pipeClose(j)
    \/ \E j \in Jobs : loopDelay(j, TRUE, TRUE)
    \/ \E j \in Jobs : loopRecvChecks(j)
    \/ \E j \in Jobs : loopSendChecks(j)
    \/ \E j \in Jobs : loopResult(j, TRUE, TRUE)
    \/ \E j \in Jobs : loopClosed(j, TRUE, TRUE)

\* One job whose check list is as long as the results channel allows.
SpecBurst == InitBurst /\ [][BurstNext]_vars

\* ------------------------------------------------- worker.runCheckInner
\* The reporting loop of the earlier worker: an unbuffered results channel
\* fed by runChecks (setup-1-sync, setup-2-get, then the checks), the same
\* select over the timer and the channel.

\* One job, any check list up to MaxChecks, a reliable GitHub.
InitLegacy ==
    /\ arrive = {1}
    /\ lists = 0..MaxChecks
    /\ hashes = {TRUE}
    /\ faults = 0
    /\ Start /\ SyncIdle /\ PathIdle /\ FunIdle

\* The name of the k-th result runChecks sends.
legacyName(k) ==
    IF k = 1 THEN "setup-1-sync" ELSE IF k = 2 THEN "setup-2-get" ELSE "cmd"

\* runChecks returns after a failing setup step.
legacyAborted(j) ==
    /\ emitted[j] # <<>>
    /\ emitted[j][Len(emitted[j])].name # "cmd"
    /\ ~emitted[j][Len(emitted[j])].success

\* runCheckInner is entered: results := make(chan gistFile), w.wg.Add(1),
\* go runChecks, i := 1, failed := false, delay nil.
runCheckInner(j, n) ==
    /\ Alive /\ j \in arrive /\ n \in lists
    /\ lpc[j] = "none"
    /\ lpc' = [lpc EXCEPT ![j] = "loop"]
    /\ gpc' = [gpc EXCEPT ![j] = "checks"]
    /\ checks' = [checks EXCEPT ![j] = n]
    /\ total' = [total EXCEPT ![j] = n + 2]
    /\ checkNum' = [checkNum EXCEPT ![j] = 1]
    /\ wg' = wg + 1
    /\ UNCHANGED <<envVars, auxVars>>
    /\ UNCHANGED <<mu, spc, crashed, faults, enqVars, rpc,
                   results, closed, chkIdx, cur,
                   failed, delay, armedAt, status, files, obsVars, logVars>>

\* runChecks runs its next step: the sync, the checkout or a check.
legacyRun(j, ok) ==
    /\ Alive /\ gpc[j] = "checks"
    /\ Len(emitted[j]) < checks[j] + 2
    /\ ~legacyAborted(j)
    /\ LET k == Len(emitted[j]) + 1
       IN cur' = [cur EXCEPT ![j] =
                    gistFile(legacyName(k), IF k > 2 THEN k - 2 ELSE 0, ok)]
    /\ gpc' = [gpc EXCEPT ![j] = "emit"]
    /\ UNCHANGED <<envVars, auxVars>>
    /\ UNCHANGED <<workerVars, enqVars, rpc, results, closed, checks, chkIdx,
                   loopVars, obsVars, logVars>>

\* `results <- gistFile{...}` meets `case r, ok := <-results`: the channel
\* is unbuffered.  The loop marks a failure, sets the suffix, adds the file
\* and runs `delay = time.After(500 * time.Millisecond)` for every result.
legacyResult(j) ==
    /\ Alive /\ gpc[j] = "emit" /\ lpc[j] = "loop"
    /\ LET r  == cur[j]
           f1 == IF r.success THEN failed[j] ELSE 1
           st == IF ~r.success THEN "failure"
                 ELSE IF checkNum[j] = total[j] /\ f1 = 0 THEN "success"
                 ELSE status[j].state
       IN /\ emitted' = [emitted EXCEPT ![j] = Append(@, r)]
          /\ failed' = [failed EXCEPT ![j] = f1]
          /\ status' = [status EXCEPT ![j] =
                          [state |-> st,
                           desc  |-> IF checkNum[j] # total[j]
                                       THEN Desc("Running tests", FALSE, checkNum[j], total[j])
                                       ELSE Desc("Ran tests", f1 # 0, 0, 0)]]
          /\ processed' = [processed EXCEPT ![j] = @ \cup {FileName(r)}]
          /\ files' = [files EXCEPT ![j] = @ \cup {FileName(r)}]
    /\ delay' = [delay EXCEPT ![j] = "armed"]
    /\ armedAt' = [armedAt EXCEPT ![j] = Cardinality(processed'[j])]
    /\ checkNum' = [checkNum EXCEPT ![j] = @ + 1]
    /\ flush' = [flush EXCEPT ![j] = NoFlushing]
    /\ gpc' = [gpc EXCEPT ![j] = "checks"]
    /\ UNCHANGED <<envVars, auxVars>>
    /\ UNCHANGED <<workerVars, enqVars, rpc, results, closed, checks, chkIdx,
                   cur, lpc, total, sent, pub, attempted, gisted, phases>>

\* runChecks returned: close(results), and the deferred w.wg.Done().
legacyClose(j) ==
    /\ Alive /\ gpc[j] = "checks"
    /\ Len(emitted[j]) = checks[j] + 2 \/ legacyAborted(j)
    /\ gpc' = [gpc EXCEPT ![j] = "closed"]
    /\ closed' = [closed EXCEPT ![j] = TRUE]
    /\ wg' = wg - 1
    /\ UNCHANGED <<envVars, auxVars>>
    /\ UNCHANGED <<mu, spc, crashed, faults, enqVars, rpc,
                   results, checks, chkIdx, cur, loopVars, obsVars, logVars>>

\* Gists.Edit, gist.Files = map{}, CreateStatus.
legacyFlush(j, kind) ==
    /\ flush' = [flush EXCEPT ![j] = [kind |-> kind, files |-> files[j], ok |-> TRUE]]
    /\ attempted' = [attempted EXCEPT ![j] = @ \cup files[j]]
    /\ gisted' = [gisted EXCEPT ![j] = @ \cup files[j]]
    /\ files' = [files EXCEPT ![j] = {}]
    /\ sent' = [sent EXCEPT ![j] = status[j]]
    /\ pub' = [pub EXCEPT ![j] = status[j]]

\* case <-delay: the flush, then delay = nil.
legacyDelay(j) ==
    /\ Alive /\ lpc[j] = "loop"
    /\ delay[j] = "armed"
    /\ legacyFlush(j, "timer")
    /\ delay' = [delay EXCEPT ![j] = "nil"]
    /\ armedAt' = [armedAt EXCEPT ![j] = 0]
    /\ UNCHANGED <<envVars, auxVars>>
    /\ UNCHANGED <<workerVars, enqVars, rpc, pipeVars,
                   lpc, checkNum, failed, total, status, processed, logVars>>

\* case r, ok := <-results with ok false: a last flush if delay != nil, and
\* `return failed`.
legacyReturn(j) ==
    /\ Alive /\ lpc[j] = "loop"
    /\ closed[j]
    /\ IF delay[j] # "nil"
         THEN legacyFlush(j, "final")
         ELSE /\ flush' = [flush EXCEPT ![j] = NoFlushing]
              /\ UNCHANGED <<attempted, gisted, files, sent, pub>>
    /\ lpc' = [lpc EXCEPT ![j] = "ret"]
    /\ UNCHANGED <<envVars, auxVars>>
    /\ UNCHANGED <<workerVars, enqVars, rpc, pipeVars,
                   checkNum, failed, total, delay, armedAt, status,
                   processed, logVars>>

LegacyNext ==
    \/ \E j \in Jobs, n \in 0..MaxChecks : runCheckInner(j, n)
    \/ \E j \in Jobs, ok \in BOOLEAN : legacyRun(j, ok)
    \/ \E j \in Jobs : legacyResult(j)
    \/ \E j \in Jobs : legacyClose(j)
    \/ \E j \in Jobs : legacyDelay(j)
    \/ \E j \in Jobs : legacyReturn(j)

\* The reporting loop of the earlier worker.
SpecLegacy == InitLegacy /\ [][LegacyNext]_vars

\* ------------------------------------------------- jobRequest.sync
\* No webhook: only the sync phase of one job is looked at.
NoJobs ==
    /\ arrive = {} /\ lists = {} /\ hashes = {} /\ faults = 0
    /\ Start

\* Any state of the cache root: primary checkout present, absent or not
\* readable, a pull request or not, up to MaxRepos secondary checkouts.
InitSync ==
    /\ NoJobs /\ PathIdle /\ FunIdle
    /\ primary \in {"present", "absent", "error"}
    /\ pullID \in BOOLEAN
    /\ repos \in {1..n : n \in 0..MaxRepos}
    /\ syncPc = "idle" /\ syncOk = TRUE /\ items = <<>>
    /\ cClosed = FALSE /\ sendPanic = FALSE
    /\ parPc = "none" /\ walked = {} /\ err1 = FALSE /\ swg = 0
    /\ cfPc = "none" /\ cfOk = TRUE
    /\ frPc = [r \in 1..MaxRepos |-> "none"]
    /\ frOk = [r \in 1..MaxRepos |-> TRUE]
    /\ deleted = {} /\ cmdFailed = {}

\* Who sends an item or runs a command: a secondary checkout (1..MaxRepos),
\* cloneOrFetch for the primary one, or syncParallel itself for the root
\* directory, $GOPATH/bin and the walk.
Primary == 0
Root == -1
Bin == -2
Walk == -3

setupWorkResult(from, ok) == [from |-> from, ok |-> ok]

\* `c <- setupWorkResult{...}` met by the `for i := range c` of sync():
\* out += i.content; ok = ok && i.ok.  A send after close(c) panics.
Deliver(it) ==
    /\ cClosed \/ syncPc = "ranging"
    /\ IF cClosed
         THEN /\ sendPanic' = TRUE
              /\ UNCHANGED <<items, syncOk>>
         ELSE /\ items' = Append(items, it)
              /\ syncOk' = (syncOk /\ it.ok)
              /\ sendPanic' = sendPanic

\* A failed command or removal is remembered.
Failed(who, cmd, ok) == IF ok THEN cmdFailed ELSE cmdFailed \cup {<<who, cmd>>}

\* sync(): c := make(chan setupWorkResult); go func() { defer close(c);
\* j.syncParallel(c) }(); then the range loop.
sync ==
    /\ syncPc = "idle" /\ parPc = "none"
    /\ syncPc' = "ranging"
    /\ parPc' = "assert"
    /\ UNCHANGED <<jobVars, syncEnv, pathVars, funVars>>
    /\ UNCHANGED <<syncOk, items, cClosed, sendPanic, walked, err1, swg,
                   cfPc, cfOk, frPc, frOk, deleted, cmdFailed>>

\* The range loop ends when c is closed: return out, ok.
syncReturn ==
    /\ syncPc = "ranging" /\ cClosed
    /\ syncPc' = "returned"
    /\ UNCHANGED <<jobVars, syncEnv, pathVars, funVars>>
    /\ UNCHANGED <<syncOk, items, cClosed, sendPanic, parPc, walked, err1, swg,
                   cfPc, cfOk, frPc, frOk, deleted, cmdFailed>>

\* syncParallel: `if err := j.assertDir(); err != nil`; otherwise
\* wg.Add(1); go func() { defer wg.Done(); j.cloneOrFetch(c) }().
syncParallel(ok) ==
    /\ parPc = "assert"
    /\ cmdFailed' = Failed(Root, "mkdir", ok)
    /\ IF ok
         THEN /\ parPc' = "walk"
              /\ swg' = swg + 1
              /\ cfPc' = "stat"
         ELSE /\ parPc' = "failed"
              /\ UNCHANGED <<swg, cfPc>>
    /\ UNCHANGED <<jobVars, syncEnv, pathVars, funVars>>
    /\ UNCHANGED <<syncPc, syncOk, items, cClosed, sendPanic, walked, err1,
                   cfOk, frPc, frOk, deleted>>

\* c <- setupWorkResult{"<failure>...", false}; return; the deferred
\* close(c) of the goroutine started by sync().
syncParallelFailed ==
    /\ parPc = "failed"
    /\ Deliver(setupWorkResult(Root, FALSE))
    /\ parPc' = "closed"
    /\ cClosed' = TRUE
    /\ UNCHANGED <<jobVars, syncEnv, pathVars, funVars>>
    /\ UNCHANGED <<syncPc, walked, err1, swg,
                   cfPc, cfOk, frPc, frOk, deleted, cmdFailed>>

\* filepath.Walk reaches the .git directory of a secondary checkout:
\* wg.Add(1); go func(p string) { ... j.fetchRepo(p) ... }(...).
walkSpawn(r) ==
    /\ parPc = "walk"
    /\ r \in repos \ walked
    /\ \A q \in repos \ walked : r <= q
    /\ walked' = walked \cup {r}
    /\ swg' = swg + 1
    /\ frPc' = [frPc EXCEPT ![r] = "fetch"]
    /\ UNCHANGED <<jobVars, syncEnv, pathVars, funVars>>
    /\ UNCHANGED <<syncPc, syncOk, items, cClosed, sendPanic, parPc, err1,
                   cfPc, cfOk, frOk, deleted, cmdFailed>>

\* filepath.Walk ends: with err1 != nil (the callback returns the error it
\* is handed, which stops the walk) or after the whole tree.
walkEnd(ok) ==
    /\ parPc = "walk"
    /\ ok => walked = repos
    /\ err1' = ~ok
    /\ cmdFailed' = Failed(Root, "walk", ok)
    /\ parPc' = "bin"
    /\ UNCHANGED <<jobVars, syncEnv, pathVars, funVars>>
    /\ UNCHANGED <<syncPc, syncOk, items, cClosed, sendPanic, walked, swg,
                   cfPc, cfOk, frPc, frOk, deleted>>

\* os.RemoveAll($GOPATH/bin) and the item that reports it.
removeBin(ok) ==
    /\ parPc = "bin"
    /\ cmdFailed' = Failed(Bin, "rm", ok)
    /\ Deliver(setupWorkResult(Bin, ok))
    /\ parPc' = "wait"
    /\ UNCHANGED <<jobVars, syncEnv, pathVars, funVars>>
    /\ UNCHANGED <<syncPc, cClosed, walked, err1, swg,
                   cfPc, cfOk, frPc, frOk, deleted>>

\* Variant: syncParallel does not wait for its goroutines.
WgDoneAlways == TRUE

\* wg.Wait() returns once every goroutine called wg.Done().
WgDone == swg = 0

\* Variant: the walk error is dropped.
ReportErr1Never(e) == FALSE

\* `if err1 != nil { c <- setupWorkResult{"<directory walking failure>"...} }`
ReportErr1(e) == e

\* wg.Wait(); without a walk error syncParallel returns and c is closed.
syncParallelWait ==
    /\ parPc = "wait"
    /\ WgDone
    /\ IF ReportErr1(err1)
         THEN /\ parPc' = "err1"
              /\ cClosed' = cClosed
         ELSE /\ parPc' = "closed"
              /\ cClosed' = TRUE
    /\ UNCHANGED <<jobVars, syncEnv, pathVars, funVars>>
    /\ UNCHANGED <<syncPc, syncOk, items, sendPanic, walked, err1, swg,
                   cfPc, cfOk, frPc, frOk, deleted, cmdFailed>>

\* The walk error is sent as the last item, then c is closed.
syncParallelErr1 ==
    /\ parPc = "err1"
    /\ Deliver(setupWorkResult(Walk, FALSE))
    /\ parPc' = "closed"
    /\ cClosed' = TRUE
    /\ UNCHANGED <<jobVars, syncEnv, pathVars, funVars>>
    /\ UNCHANGED <<syncPc, walked, err1, swg,
                   cfPc, cfOk, frPc, frOk, deleted, cmdFailed>>

\* cloneOrFetch: os.Stat(p).  An error other than "not exist" is a failure
\* item; an absent directory is cloned; a present one is fetched.
cloneOrFetch ==
    /\ cfPc = "stat"
    /\ cfPc' = CASE primary = "error" -> "send"
                 [] primary = "absent" -> "clone"
                 [] OTHER -> "fetch"
    /\ cfOk' = (primary # "error")
    /\ cmdFailed' = Failed(Primary, "stat", primary # "error")
    /\ UNCHANGED <<jobVars, syncEnv, pathVars, funVars>>
    /\ UNCHANGED <<syncPc, syncOk, items, cClosed, sendPanic, parPc, walked, err1,
                   swg, frPc, frOk, deleted>>

\* stdout, ok := j.run(..., "git", "clone", "--quiet", j.cloneURL())
cloneOrFetchClone(ok) ==
    /\ cfPc = "clone"
    /\ cfOk' = ok
    /\ cmdFailed' = Failed(Primary, "clone", ok)
    /\ cfPc' = "sendclone"
    /\ UNCHANGED <<jobVars, syncEnv, pathVars, funVars>>
    /\ UNCHANGED <<syncPc, syncOk, items, cClosed, sendPanic, parPc, walked, err1,
                   swg, frPc, frOk, deleted>>

\* c <- setupWorkResult{stdout, ok}; if j.pullID == 0 || !ok { return }
cloneOrFetchSendClone ==
    /\ cfPc = "sendclone"
    /\ Deliver(setupWorkResult(Primary, cfOk))
    /\ IF ~pullID \/ ~cfOk
         THEN /\ cfPc' = "done"
              /\ swg' = swg - 1
         ELSE /\ cfPc' = "fetch"
              /\ swg' = swg
    /\ UNCHANGED <<jobVars, syncEnv, pathVars, funVars>>
    /\ UNCHANGED <<syncPc, cClosed, parPc, walked, err1,
                   cfOk, frPc, frOk, deleted, cmdFailed>>

\* stdout, ok := j.run(j.getPath(), nil, {"git", "fetch", ...}, false):
\* the flag of the command is the flag of the item, nothing is deleted.
cloneOrFetchFetch(ok) ==
    /\ cfPc = "fetch"
    /\ cfOk' = ok
    /\ cmdFailed' = Failed(Primary, "fetch", ok)
    /\ cfPc' = "send"
    /\ UNCHANGED <<jobVars, syncEnv, pathVars, funVars>>
    /\ UNCHANGED <<syncPc, syncOk, items, cClosed, sendPanic, parPc, walked, err1,
                   swg, frPc, frOk, deleted>>

\* The last send of cloneOrFetch, then the deferred wg.Done().
cloneOrFetchSend ==
    /\ cfPc = "send"
    /\ Deliver(setupWorkResult(Primary, cfOk))
    /\ cfPc' = "done"
    /\ swg' = swg - 1
    /\ UNCHANGED <<jobVars, syncEnv, pathVars, funVars>>
    /\ UNCHANGED <<syncPc, cClosed, parPc, walked, err1,
                   cfOk, frPc, frOk, deleted, cmdFailed>>

\* fetchRepo: stdout, ok := j.run(repoRel, nil, {"git", "fetch", ...}, false)
fetchRepo(r, ok) ==
    /\ frPc[r] = "fetch"
    /\ cmdFailed' = Failed(r, "fetch", ok)
    /\ frPc' = [frPc EXCEPT ![r] = IF ok THEN "checkout" ELSE "rm"]
    /\ UNCHANGED <<jobVars, syncEnv, pathVars, funVars>>
    /\ UNCHANGED <<syncPc, syncOk, items, cClosed, sendPanic, parPc, walked, err1,
                   swg, cfPc, cfOk, frOk, deleted>>

\* `if err := os.RemoveAll(repoPath); err != nil { return ..., false }`;
\* `return ... "<recovered failure>" ..., true`.
fetchRepoRemove(r, ok) ==
    /\ frPc[r] = "rm"
    /\ cmdFailed' = Failed(r, "rm", ok)
    /\ deleted' = IF ok THEN deleted \cup {r} ELSE deleted
    /\ frOk' = [frOk EXCEPT ![r] = ok]
    /\ frPc' = [frPc EXCEPT ![r] = "send"]
    /\ UNCHANGED <<jobVars, syncEnv, pathVars, funVars>>
    /\ UNCHANGED <<syncPc, syncOk, items, cClosed, sendPanic, parPc, walked, err1,
                   swg, cfPc, cfOk>>

\* stdout2, ok2 := j.run(repoRel, nil, {"git", "checkout", "--quiet", "-B",
\* "master", "origin/master"}, false); return stdout + stdout2, ok && ok2
fetchRepoCheckout(r, ok2) ==
    /\ frPc[r] = "checkout"
    /\ cmdFailed' = Failed(r, "checkout", ok2)
    /\ frOk' = [frOk EXCEPT ![r] = ok2]
    /\ frPc' = [frPc EXCEPT ![r] = "send"]
    /\ UNCHANGED <<jobVars, syncEnv, pathVars, funVars>>
    /\ UNCHANGED <<syncPc, syncOk, items, cClosed, sendPanic, parPc, walked, err1,
                   swg, cfPc, cfOk, deleted>>

\* c <- setupWorkResult{stdout, ok} of the goroutine, then its deferred
\* wg.Done().
fetchRepoSend(r) ==
    /\ frPc[r] = "send"
    /\ Deliver(setupWorkResult(r, frOk[r]))
    /\ frPc' = [frPc EXCEPT ![r] = "done"]
    /\ swg' = swg - 1
    /\ UNCHANGED <<jobVars, syncEnv, pathVars, funVars>>
    /\ UNCHANGED <<syncPc, cClosed, parPc, walked, err1,
                   cfPc, cfOk, frOk, deleted, cmdFailed>>

SyncNext ==
    \/ sync
    \/ syncReturn
    \/ \E ok \in BOOLEAN : syncParallel(ok)
    \/ syncParallelFailed
    \/ \E r \in 1..MaxRepos : walkSpawn(r)
    \/ \E ok \in BOOLEAN : walkEnd(ok)
    \/ \E ok \in BOOLEAN : removeBin(ok)
    \/ syncParallelWait
    \/ syncParallelErr1
    \/ cloneOrFetch
    \/ \E ok \in BOOLEAN : cloneOrFetchClone(ok)
    \/ cloneOrFetchSendClone
    \/ \E ok \in BOOLEAN : cloneOrFetchFetch(ok)
    \/ cloneOrFetchSend
    \/ \E r \in 1..MaxRepos, ok \in BOOLEAN : fetchRepo(r, ok)
    \/ \E r \in 1..MaxRepos, ok \in BOOLEAN : fetchRepoRemove(r, ok)
    \/ \E r \in 1..MaxRepos, ok2 \in BOOLEAN : fetchRepoCheckout(r, ok2)
    \/ \E r \in 1..MaxRepos : fetchRepoSend(r)

\* The sync phase of one job on any cache root.
SpecSync == InitSync /\ [][SyncNext]_vars

\* ------------------------------------------------- PATH: getCmd, newJobRequest
\* The process-wide PATH is represented by the set of jobs whose
\* $GOPATH/bin directory precedes the value the process was started with.
InitPath ==
    /\ NoJobs /\ SyncIdle /\ PathIdle /\ FunIdle

\* The jobs whose pipeline is running, i.e. that hold w.mu.
Running(j) == ppc[j] \notin {"idle", "made", "done"}

\* newJobRequest, called by enqueueCheck in the goroutine of the HTTP
\* handler: path := filepath.Join(gopath, "bin") + ":" + os.Getenv("PATH").
\* Neither w.mu nor muCmd is held.
newJobRequest(j) ==
    /\ ppc[j] = "idle"
    /\ \A k \in Jobs : k < j => ppc[k] # "idle"
    /\ path' = [path EXCEPT ![j] = {j} \cup PATH]
    /\ ppc' = [ppc EXCEPT ![j] = "made"]
    /\ UNCHANGED <<jobVars, syncEnv, syncVars, funVars>>
    /\ UNCHANGED <<PATH, muCmd, oldpath, ncmd, resolved>>

\* The job gets w.mu in runJobRequest and starts running commands.
pathRunJob(j) ==
    /\ ppc[j] = "made"
    /\ \A k \in Jobs : ~Running(k)
    /\ ppc' = [ppc EXCEPT ![j] = "run"]
    /\ UNCHANGED <<jobVars, syncEnv, syncVars, funVars>>
    /\ UNCHANGED <<PATH, muCmd, path, oldpath, ncmd, resolved>>

\* The job's pipeline ends, w.mu is released.
pathJobDone(j) ==
    /\ ppc[j] = "run"
    /\ ppc' = [ppc EXCEPT ![j] = "done"]
    /\ UNCHANGED <<jobVars, syncEnv, syncVars, funVars>>
    /\ UNCHANGED <<PATH, muCmd, path, oldpath, ncmd, resolved>>

\* j.run calls getCmd(j.path, cmd) when pathOverride is set (checks), else
\* getCmd("", cmd).  muCmd.Lock().
getCmd(j, pathOverride) ==
    /\ ppc[j] = "run"
    /\ ncmd[j] < MaxCmds
    /\ muCmd = NoJob
    /\ muCmd' = j
    /\ ppc' = [ppc EXCEPT ![j] = IF pathOverride THEN "set" ELSE "plain"]
    /\ UNCHANGED <<jobVars, syncEnv, syncVars, funVars>>
    /\ UNCHANGED <<PATH, path, oldpath, ncmd, resolved>>

\* oldpath := os.Getenv("PATH"); os.Setenv("PATH", path)
getCmdSetenv(j) ==
    /\ ppc[j] = "set"
    /\ oldpath' = [oldpath EXCEPT ![j] = PATH]
    /\ PATH' = path[j]
    /\ ppc' = [ppc EXCEPT ![j] = "command"]
    /\ UNCHANGED <<jobVars, syncEnv, syncVars, funVars>>
    /\ UNCHANGED <<muCmd, path, ncmd, resolved>>

\* exec.Command(cmd[0], cmd[1:]...), which calls exec.LookPath at once.
getCmdCommand(j) ==
    /\ ppc[j] \in {"command", "plain"}
    /\ resolved' = [resolved EXCEPT ![j] = PATH]
    /\ ppc' = [ppc EXCEPT ![j] = IF @ = "command" THEN "restore" ELSE "unlock"]
    /\ UNCHANGED <<jobVars, syncEnv, syncVars, funVars>>
    /\ UNCHANGED <<PATH, muCmd, path, oldpath, ncmd>>

\* The deferred calls of getCmd: os.Setenv("PATH", oldpath) when the path
\* was overridden, then muCmd.Unlock().
getCmdReturn(j) ==
    /\ ppc[j] \in {"restore", "unlock"}
    /\ PATH' = IF ppc[j] = "restore" THEN oldpath[j] ELSE PATH
    /\ muCmd' = NoJob
    /\ ncmd' = [ncmd EXCEPT ![j] = @ + 1]
    /\ ppc' = [ppc EXCEPT ![j] = "run"]
    /\ UNCHANGED <<jobVars, syncEnv, syncVars, funVars>>
    /\ UNCHANGED <<path, oldpath, resolved>>

PathNext ==
    \/ \E j \in Jobs : newJobRequest(j)
    \/ \E j \in Jobs : pathRunJob(j)
    \/ \E j \in Jobs : pathJobDone(j)
    \/ \E j \in Jobs, pathOverride \in BOOLEAN : getCmd(j, pathOverride)
    \/ \E j \in Jobs : getCmdSetenv(j)
    \/ \E j \in Jobs : getCmdCommand(j)
    \/ \E j \in Jobs : getCmdReturn(j)

\* Jobs created by webhooks while the commands of a running job go through
\* getCmd.
SpecPath == InitPath /\ [][PathNext]_vars

\* ------------------------------------------------- jobRequest.parseConfig
\* The names a `workers` entry may carry: the name of a worker or none.
WorkerNames == {"w1", "w2"}
EntryNames == WorkerNames \cup {""}

\* workerProjectConfig{Name, Checks}; the check list is represented by its
\* length.
Entry(name, n) == [name |-> name, checks |-> n]
Entries == {Entry(name, n) : name \in EntryNames, n \in 0..MaxChecks}
WorkerLists == UNION {[1..k -> Entries] : k \in 0..MaxWorkers}

\* Any .gohci.yml: absent, not parseable, or parsed with any version and
\* any list of workers; any worker name.
InitConfig ==
    /\ NoJobs /\ SyncIdle /\ PathIdle
    /\ cfgFile \in {ProjectFile("absent", 0, <<>>), ProjectFile("invalid", 0, <<>>)}
                   \cup {ProjectFile("ok", v, ws) : v \in {1, 2}, ws \in WorkerLists}
    /\ cfgName \in WorkerNames
    /\ cfgOut = NoOutput
    /\ nChecks = 0 /\ nameIdx = 0 /\ names = <<>>
    /\ dur = 0 /\ shown = NoShown

\* loadProjectConfig: the parsed file when it could be read, unmarshalled and
\* has Version 1; nil (FALSE here) otherwise.
loadProjectConfig(file) == file.state = "ok" /\ file.version = 1

\* The first index of ws whose name is `name`, 0 when there is none:
\* `for _, w := range p.Workers { if w.Name == name { return ... } }`.
RECURSIVE RangeFind(_, _, _)
RangeFind(ws, name, i) ==
    IF i > Len(ws) THEN 0
    ELSE IF ws[i].name = name THEN i
    ELSE RangeFind(ws, name, i + 1)

\* Variant: one loop that takes the first entry that is either named after
\* the worker or unnamed.
RECURSIVE RangeFindEither(_, _, _)
RangeFindEither(ws, name, i) ==
    IF i > Len(ws) THEN 0
    ELSE IF ws[i].name = name \/ ws[i].name = "" THEN i
    ELSE RangeFindEither(ws, name, i + 1)

\* Variant: worker entry and unnamed entry compete by position.
PickEntryByPosition(ws, name) == RangeFindEither(ws, name, 1)

\* The entry parseConfig takes: the loop over the worker's name first, then
\* the loop over the empty name.
PickEntry(ws, name) ==
    IF RangeFind(ws, name, 1) # 0 THEN RangeFind(ws, name, 1)
    ELSE RangeFind(ws, "", 1)

\* The built-in default: []gohci.Check{{Cmd: {"go", "test", "./..."}}}.
DefaultChecks == 1

\* parseConfig(name) on a file.
ParseConfig(file, name) ==
    IF loadProjectConfig(file) /\ PickEntry(file.workers, name) # 0
      THEN LET w == file.workers[PickEntry(file.workers, name)]
           IN [note |-> IF w.name = name THEN "worker" ELSE "generic",
               checks |-> w.checks]
      ELSE [note |-> "default", checks |-> DefaultChecks]

\* chks, note := j.parseConfig(w.name)
parseConfigCall ==
    /\ cfgOut = NoOutput
    /\ cfgOut' = ParseConfig(cfgFile, cfgName)
    /\ UNCHANGED <<jobVars, syncEnv, syncVars, pathVars>>
    /\ UNCHANGED <<cfgFile, cfgName, nChecks, nameIdx, names, dur, shown>>

ConfigNext == parseConfigCall

\* parseConfig applied to any repository configuration.
SpecConfig == InitConfig /\ [][ConfigNext]_vars

\* ------------------------------------------------- runChecks: result names
\* Strings are sequences of byte values.
ByteC == 99
ByteM == 109
ByteD == 100
Byte0 == 48

\* Any check list up to MaxList checks.
InitNames ==
    /\ NoJobs /\ SyncIdle /\ PathIdle
    /\ cfgFile = ProjectFile("absent", 0, <<>>)
    /\ cfgName = "" /\ cfgOut = NoOutput
    /\ nChecks \in 0..MaxList
    /\ nameIdx = 0 /\ names = <<>>
    /\ dur = 0 /\ shown = NoShown

\* strconv.Itoa(n) for n >= 0: the decimal digits, most significant first.
RECURSIVE Itoa(_)
Itoa(n) == IF n < 10 THEN <<Byte0 + n>>
           ELSE Append(Itoa(n \div 10), Byte0 + (n % 10))

\* Variant: the names are not padded.
NbNone(n) == 1

\* nb := len(strconv.Itoa(len(checks)))
Nb(n) == Len(Itoa(n))

\* The "%0*d" verb of fmt.Sprintf: the digits of v, with zeros in front up
\* to the width when they are fewer.
RECURSIVE ZeroPad(_, _)
ZeroPad(width, digits) ==
    IF Len(digits) >= width THEN digits
    ELSE ZeroPad(width, <<Byte0>> \o digits)

\* fmt.Sprintf("cmd%0*d", nb, v)
Sprintf(nb, v) == <<ByteC, ByteM, ByteD>> \o ZeroPad(nb, Itoa(v))

\* One turn of the range loop of runChecks, as far as the name goes.
runChecksName ==
    /\ nameIdx < nChecks
    /\ names' = Append(names, Sprintf(Nb(nChecks), nameIdx + 1))
    /\ nameIdx' = nameIdx + 1
    /\ UNCHANGED <<jobVars, syncEnv, syncVars, pathVars>>
    /\ UNCHANGED <<cfgFile, cfgName, cfgOut, nChecks, dur, shown>>

NamesNext == runChecksName

\* The names runChecks gives to the results of any check list.
SpecNames == InitNames /\ [][NamesNext]_vars

\* ------------------------------------------------- roundDuration, roundTime
\* time.Duration values, in nanoseconds.
Microsecond == 1000
Millisecond == 1000 * Microsecond
Second == 1000 * Millisecond

\* Durations around every power of ten from 1µs to 1s, around its
\* multiples, and around the halves of the rounding steps in between.
Powers == {10 ^ k : k \in 3..9}
Mants(r) == IF r = Second THEN {1, 2} ELSE 1..MaxMant
Durations ==
    {0, 1, 999}
    \cup UNION {{r * a + (r \div 2000) * c + e :
                     a \in Mants(r), c \in 0..3, e \in {-1, 0, 1}} :
                  r \in Powers}

InitRound ==
    /\ NoJobs /\ SyncIdle /\ PathIdle
    /\ cfgFile = ProjectFile("absent", 0, <<>>)
    /\ cfgName = "" /\ cfgOut = NoOutput
    /\ nChecks = 0 /\ nameIdx = 0 /\ names = <<>>
    /\ dur \in Durations
    /\ shown = NoShown

\* Variant: the duration is cut, not rounded.
RoundCut(t, d) == (t \div d) * d

\* (t + d/2) / d * d
Round(t, d) == ((t + d \div 2) \div d) * d

\* The loop of roundDuration:
\* for r := time.Second; r > time.Microsecond; r /= 10 { if t >= r {...} }
RECURSIVE roundLoop(_, _)
roundLoop(t, r) ==
    IF r > Microsecond
      THEN IF t >= r THEN Round(t, r \div 1000)
           ELSE roundLoop(t, r \div 10)
      ELSE t

roundDuration(t) == roundLoop(t, Second)

\* roundTime of the earlier job.go.
roundTime(t) ==
    IF t < Millisecond THEN t
    ELSE IF t < Second THEN Round(t, Microsecond)
    ELSE Round(t, Millisecond)

\* jobRequest.run renders the text of a command with
\* roundDuration(duration).
run ==
    /\ shown = NoShown
    /\ shown' = [by |-> "roundDuration", d |-> roundDuration(dur)]
    /\ UNCHANGED <<jobVars, syncEnv, syncVars, pathVars>>
    /\ UNCHANGED <<cfgFile, cfgName, cfgOut, nChecks, nameIdx, names, dur>>

\* The run of the earlier job.go renders it with roundTime(duration).
runRoundTime ==
    /\ shown = NoShown
    /\ shown' = [by |-> "roundTime", d |-> roundTime(dur)]
    /\ UNCHANGED <<jobVars, syncEnv, syncVars, pathVars>>
    /\ UNCHANGED <<cfgFile, cfgName, cfgOut, nChecks, nameIdx, names, dur>>

RoundNext == run \/ runRoundTime

\* The duration of a command as its rendered text shows it.
SpecRound == InitRound /\ [][RoundNext]_vars

\* ================================================================ claims
\* Helpers of the statements below.
Inside(j) == rpc[j] \in {"locked", "inner", "post"}
Returning(j) == lpc[j] = "ret" /\ rpc[j] = "post"
IsCheck(r) == r.name = "cmd"
CheckResults(j) == SelectSeq(emitted[j], IsCheck)
IsPipePhase(p) == p # "ls-remote"
PipePhases(j) == SelectSeq(phases[j], IsPipePhase)
IsCheckPhase(p) == p = "check"
ChecksRun(j) == Len(SelectSeq(phases[j], IsCheckPhase))
\* The step is the reporting loop of j taking one result off the channel.
TakesResult(j) == lpc[j] = "loop" /\ processed'[j] # processed[j]

\* C1: at any time at most one job is inside runJobRequest (between
\* w.mu.Lock() and the deferred Unlock), however many jobs are queued.
C1_OneJobInside ==
    \A a, b \in Jobs : Inside(a) /\ Inside(b) => a = b

C1_Witness ==
    \E a, b \in Jobs : a # b /\ lpc[a] = "loop" /\ rpc[a] = "inner"
                        /\ rpc[b] = "queued"

\* C2: when runJobRequestInner returns, a flush that was pending has been
\* done as a final flush, every processed result was part of a flush
\* attempt, and the last status handed to GitHub is the in-memory status.
C2_TerminalFlush ==
    \A j \in Jobs : Returning(j) =>
        /\ delay[j] # "nil" => flush[j].kind = "final"
        /\ processed[j] \subseteq attempted[j]
        /\ sent[j] = status[j]

C2_Witness ==
    \E j \in Jobs : /\ Returning(j)
                    /\ flush[j].kind = "final"
                    /\ Cardinality(flush[j].files) >= 2
                    /\ Cardinality(processed[j]) >= 4

\* C3: the step in which the loop processes the first failing result of a
\* job flushes note and status itself (the flush carries that result and
\* the updated status, state "failure") and leaves no timer armed.
C3_FirstFailureImmediate ==
    [][\A j \in Jobs :
        (TakesResult(j) /\ ~Head(results[j]).success /\ failed[j] = 0)
        => /\ flush'[j].kind = "immediate"
           /\ FileName(Head(results[j])) \in flush'[j].files
           /\ sent'[j] = status'[j]
           /\ status'[j].state = "failure"
           /\ delay'[j] = "nil"]_vars

C3_Witness ==
    \E j \in Jobs : /\ lpc[j] = "loop"
                    /\ flush[j].kind = "immediate"
                    /\ delay[j] = "nil"
                    /\ failed[j] = 1
                    /\ \E f \in flush[j].files : f.name = "cmd" /\ f.failed
                    /\ Cardinality(flush[j].files) >= 2

\* C4: a result that is not the first failure and is processed while a timer
\* is pending triggers no flush and leaves that timer pending; the one flush
\* that ends the timer (timer firing or channel closing) carries every
\* result processed since the previous flush.
C4_DebounceCoalescing ==
    [][\A j \in Jobs :
        /\ (TakesResult(j) /\ delay[j] = "armed"
              /\ (Head(results[j]).success \/ failed[j] # 0))
           => /\ flush'[j].kind = "none"
              /\ delay'[j] = "armed"
              /\ FileName(Head(results[j])) \in files'[j]
              /\ attempted'[j] = attempted[j]
        /\ (lpc[j] = "loop" /\ delay[j] = "armed" /\ processed'[j] = processed[j]
              /\ (delay'[j] = "nil" \/ lpc'[j] = "ret"))
           => /\ flush'[j].kind \in {"timer", "final"}
              /\ (processed[j] \ attempted[j]) \subseteq flush'[j].files
              /\ processed[j] \subseteq attempted'[j]]_vars

C4_Witness ==
    \E j \in Jobs : /\ flush[j].kind = "timer"
                    /\ faults = MaxFaults
                    /\ Cardinality(flush[j].files) >= 2
                    /\ flush[j].files \subseteq processed[j]

\* C5: once both setup phases succeeded and the pipeline goroutine has
\* ended, every check of the list was run and exactly one result per check
\* was emitted, in configuration order.
C5_NoCheckSkipped ==
    \A j \in Jobs :
        (gpc[j] = "closed" /\ rpc[j] \in {"inner", "post"}
           /\ Len(emitted[j]) >= 2 /\ emitted[j][1].success /\ emitted[j][2].success)
        => /\ Len(CheckResults(j)) = checks[j]
           /\ \A i \in 1..checks[j] : CheckResults(j)[i].idx = i
           /\ ChecksRun(j) = checks[j]

C5_Witness ==
    \E j \in Jobs : /\ gpc[j] = "closed" /\ rpc[j] = "inner"
                    /\ checks[j] >= 2
                    /\ Len(CheckResults(j)) = checks[j]
                    /\ ~CheckResults(j)[1].success

\* C6: when sync reports failure exactly one result, setup-1-sync, is
\* emitted, the channel is closed and no other phase or command runs.
C6_SyncShortCircuit ==
    \A j \in Jobs :
        (emitted[j] # <<>> /\ ~emitted[j][1].success)
        => /\ emitted[j] = <<gistFile("setup-1-sync", 0, FALSE)>>
           /\ closed[j] /\ gpc[j] = "closed"
           /\ PipePhases(j) = <<"sync">>

C6_Witness ==
    \E j \in Jobs : /\ Returning(j)
                    /\ emitted[j] = <<gistFile("setup-1-sync", 0, FALSE)>>
                    /\ processed[j] = {FileName(gistFile("setup-1-sync", 0, FALSE))}

\* C7: when checkout reports failure exactly the sync and checkout results
\* are emitted, the channel is closed, no check list is resolved and no
\* check runs; the status the loop returns with has state "failure".
C7_CheckoutShortCircuit ==
    \A j \in Jobs :
        (Len(emitted[j]) >= 2 /\ ~emitted[j][2].success)
        => /\ emitted[j] = <<gistFile("setup-1-sync", 0, TRUE),
                             gistFile("setup-2-get", 0, FALSE)>>
           /\ closed[j] /\ gpc[j] = "closed"
           /\ PipePhases(j) = <<"sync", "checkout">>
           /\ ChecksRun(j) = 0
           /\ Returning(j) => status[j].state = "failure" /\ sent[j].state = "failure"

C7_Witness ==
    \E j \in Jobs : /\ Returning(j)
                    /\ Len(emitted[j]) = 2 /\ ~emitted[j][2].success
                    /\ status[j].state = "failure"

C9_Drain ==
    [][(spc = "waiting" /\ spc' = "woken")
        => \A j \in Jobs : epc[j] = "returned"
              => \/ rpc[j] = "none"
                 \/ rpc[j] = "done" /\ gpc[j] = "closed" /\ lpc[j] = "ret"]_vars

C9_Witness ==
    /\ spc = "woken"
    /\ \E j \in Jobs : rpc[j] = "done" /\ epc[j] = "returned"

\* C10: when runServer returns no enqueued job is running or waiting to
\* run.
C10_GracefulExit ==
    spc = "returned" => \A j \in Jobs : rpc[j] \in {"none", "done"}

\* A gist file name as the loop has to build it from an emitted result.
Marked(e) == [name |-> e.name, idx |-> e.idx, failed |-> ~e.success]
Setup3 == [name |-> "setup-3-checks", idx |-> 0, failed |-> FALSE]
FailureSeen(j) == \E f \in processed[j] : f.failed

\* C11: when the reporting loop returns, the returned flag (failed != 0) is
\* true exactly when some processed result had success = false, the FAILED
\* marker is on the names of exactly the failing results, and a job with a
\* failing result ends with status state "failure".
C11_DeterministicSummary ==
    \A j \in Jobs : Returning(j) =>
        /\ (failed[j] # 0) <=> (\E i \in 1..Len(emitted[j]) : ~emitted[j][i].success)
        /\ failed[j] = Cardinality({i \in 1..Len(emitted[j]) : ~emitted[j][i].success})
        /\ processed[j] \ {Setup3} = {Marked(emitted[j][i]) : i \in 1..Len(emitted[j])}
        /\ (failed[j] # 0) => status[j].state = "failure" /\ sent[j].state = "failure"

C11_Witness ==
    \E j \in Jobs : /\ Returning(j)
                    /\ failed[j] = 1
                    /\ status[j].state = "failure"
                    /\ \E f, g \in processed[j] :
                          /\ f.name = "cmd" /\ f.idx = 1 /\ f.failed
                          /\ g.name = "cmd" /\ g.idx = 2 /\ ~g.failed

\* C12: once a failing result has been processed the in-memory status and
\* the last status handed to GitHub have state "failure", and every later
\* publish of the job that GitHub accepts has state "failure".
C12_WorstOutcome ==
    /\ [](\A j \in Jobs : FailureSeen(j) =>
             status[j].state = "failure" /\ sent[j].state = "failure")
    /\ [][\A j \in Jobs :
            (FailureSeen(j)' /\ lpc[j] = "loop" /\ pub'[j] # pub[j])
            => pub'[j].state = "failure"]_vars

C12_Witness ==
    \E j \in Jobs : /\ FailureSeen(j)
                    /\ flush[j].kind \in {"timer", "final"}
                    /\ pub[j] = sent[j]
                    /\ pub[j].state = "failure"
                    /\ \E f \in flush[j].files : f.name = "cmd" /\ ~f.failed

\* C13: a result gets the terminal description ("Success" or "FAILED k out
\* of N") or leaves the status state at "success" only when it is the result
\* of the last check of the list.
C13_TerminalOnLastCheck ==
    [][\A j \in Jobs :
        (TakesResult(j) /\ \/ status'[j].desc[1] \in {"Success", "FAILED"}
                           \/ status'[j].state = "success")
        => /\ Head(results[j]).name = "cmd"
           /\ Head(results[j]).idx = checks[j]]_vars

\* The phase that has to be the i-th one of a job's pipeline.
PhaseAt(i) == IF i = 1 THEN "sync"
              ELSE IF i = 2 THEN "checkout"
              ELSE IF i = 3 THEN "parse"
              ELSE "check"

\* C14: the phases of a job run in the order sync, checkout, resolve
\* checks, run checks, each setup phase after the previous one's result was
\* emitted; the checks run in configuration order, and a check command
\* starts only when the results of all checks before it were emitted.
C14_PhaseOrder ==
    \A j \in Jobs :
        /\ \A i \in 1..Len(PipePhases(j)) : PipePhases(j)[i] = PhaseAt(i)
        /\ Len(PipePhases(j)) >= 2 => emitted[j][1].name = "setup-1-sync"
        /\ Len(PipePhases(j)) >= 3 => emitted[j][2].name = "setup-2-get"
        /\ ChecksRun(j) <= checks[j]
        /\ ChecksRun(j) = Len(CheckResults(j)) + (IF gpc[j] = "emit" THEN 1 ELSE 0)
        /\ \A i \in 1..Len(CheckResults(j)) : CheckResults(j)[i].idx = i
        /\ gpc[j] = "emit" => cur[j].idx = ChecksRun(j)

C14_Witness ==
    \E j \in Jobs : /\ gpc[j] = "emit"
                    /\ ChecksRun(j) = 2
                    /\ Len(CheckResults(j)) = 1
                    /\ PipePhases(j) = <<"sync", "checkout", "parse", "check", "check">>

\* C15: when sync() returns, if nothing but the refresh of secondary
\* checkouts went wrong (their fetch or their checkout of master) and every
\* removal of a broken secondary checkout succeeded, sync reports success.
C15_SecondaryNeverBlocks ==
    (/\ syncPc = "returned"
     /\ \A f \in cmdFailed : f[1] \in repos /\ f[2] \in {"fetch", "checkout"})
    => syncOk

\* C16: when the primary checkout is present and its fetch fails, the
\* directory is deleted and the outcome sent for it is a recovered one, so
\* sync reports success when nothing else went wrong.
C16_PrimaryRecovery ==
    (/\ syncPc = "returned" /\ primary = "present"
     /\ <<Primary, "fetch">> \in cmdFailed)
    => /\ Primary \in deleted
       /\ \A i \in 1..Len(items) : items[i].from = Primary => items[i].ok
       /\ cmdFailed = {<<Primary, "fetch">>} => syncOk

\* C18: PATH has its original value whenever muCmd is free, and the path
\* computed by newJobRequest for a job holds the bin directory of that job
\* only, so no command is ever resolved with another job's bin directory.
C18_SearchPathIsolated ==
    /\ muCmd = NoJob => PATH = {}
    /\ \A j \in Jobs : ppc[j] # "idle" => path[j] = {j}
    /\ \A j \in Jobs : resolved[j] \subseteq {j}

\* The step is an operation of j in the workspace: a command or phase of
\* its pipeline, or the assertDir and git ls-remote of findCommitHash.
Touches(j) ==
    \/ epc[j] = "hash" /\ epc'[j] # "hash"
    \/ rpc[j] = "inner" /\ phases'[j] # phases[j]

\* C17: no operation of a job in the workspace happens while another job
\* is inside runJobRequest, i.e. holds the single-job mutex.
C17_WorkspaceExclusive ==
    [][\A j \in Jobs : Touches(j) => mu \in {NoJob, j}]_vars

\* C19: when runJobRequest of a job takes the mutex, no job that was
\* already queued (its enqueueCheck had returned) when enqueueCheck was
\* entered for this job is still waiting for the mutex.
C19_ArrivalOrder ==
    [][\A j \in Jobs :
        (rpc[j] = "queued" /\ rpc'[j] = "locked")
        => \A k \in prior[j] : rpc[k] # "queued"]_vars

\* The emitted results that failed.
FailedEmitted(j) == {i \in 1..Len(emitted[j]) : ~emitted[j][i].success}

\* C20: a step of the reporting loop in which a GitHub call fails is one
\* flush attempt that touches nothing of the pipeline goroutine and leaves
\* the loop where a successful flush leaves it (timer cleared, next case of
\* the select, or return), so nothing is published again on its own; and
\* when the loop returns, the results processed and the returned flag are
\* those given by the emitted results alone, whatever publish failed.
C20_PublishFailuresNotFatal ==
    /\ [][\A j \in Jobs :
            (lpc[j] = "loop" /\ faults' < faults)
            => /\ UNCHANGED <<gpc, closed, checks, chkIdx, cur, logVars>>
               /\ UNCHANGED <<crashed, mu, total>>
               /\ results'[j] = IF flush'[j].kind = "immediate"
                                  THEN Tail(results[j]) ELSE results[j]
               /\ sent'[j] = status'[j]
               /\ flush'[j].kind \in {"timer", "immediate", "final"}
               /\ flush'[j].kind = "timer"
                  => /\ delay'[j] = "nil" /\ lpc'[j] = "loop"
                     /\ UNCHANGED <<status, failed, checkNum, processed>>
               /\ flush'[j].kind = "immediate"
                  => /\ delay'[j] = "nil" /\ lpc'[j] = "loop"
                     /\ failed'[j] = 1 /\ status'[j].state = "failure"
               /\ flush'[j].kind = "final"
                  => /\ lpc'[j] = "ret" /\ rpc'[j] = "post"
                     /\ UNCHANGED <<status, failed, checkNum, processed>>]_vars
    /\ [](\A j \in Jobs : Returning(j) =>
             /\ gpc[j] = "closed" /\ results[j] = <<>>
             /\ failed[j] = Cardinality(FailedEmitted(j))
             /\ \A i \in 1..Len(emitted[j]) : Marked(emitted[j][i]) \in processed[j])

C20_Witness ==
    \E j \in Jobs : /\ Returning(j)
                    /\ faults < MaxFaults
                    /\ (pub[j] # sent[j] \/ files[j] # {})
                    /\ flush[j].kind = "final"
                    /\ ChecksRun(j) = 2
                    /\ failed[j] = 1

\* The entries of the file whose name is n, by position.
Named(ws, n) == {i \in 1..Len(ws) : ws[i].name = n}
Lowest(S) == CHOOSE i \in S : \A k \in S : i <= k

\* C21: parseConfig always returns a list.  With a readable version 1 file
\* that has an entry named after the worker, it returns the checks of the
\* first such entry, wherever the unnamed entries are; else with an unnamed
\* entry, those of the first unnamed entry; else, or without a valid file,
\* the single default check.
C21_ConfigPrecedence ==
    cfgOut # NoOutput =>
        LET ws == cfgFile.workers
            valid == cfgFile.state = "ok" /\ cfgFile.version = 1
        IN /\ cfgOut.note \in {"worker", "generic", "default"}
           /\ (valid /\ Named(ws, cfgName) # {})
              => cfgOut = [note |-> "worker",
                           checks |-> ws[Lowest(Named(ws, cfgName))].checks]
           /\ (valid /\ Named(ws, cfgName) = {} /\ Named(ws, "") # {})
              => cfgOut = [note |-> "generic",
                           checks |-> ws[Lowest(Named(ws, ""))].checks]
           /\ (~valid \/ (Named(ws, cfgName) = {} /\ Named(ws, "") = {}))
              => cfgOut = [note |-> "default", checks |-> DefaultChecks]

C21_Witness ==
    /\ cfgOut.note = "worker"
    /\ Len(cfgFile.workers) = 2
    /\ cfgFile.workers[1].name = ""
    /\ cfgFile.workers[2].name = cfgName
    /\ cfgFile.workers[1].checks # cfgFile.workers[2].checks
    /\ cfgOut.checks = cfgFile.workers[2].checks

\* Byte-wise comparison of two strings, as Go and a sorted listing do it.
RECURSIVE LexLess(_, _)
LexLess(a, b) ==
    IF b = <<>> THEN FALSE
    ELSE IF a = <<>> THEN TRUE
    ELSE IF Head(a) # Head(b) THEN Head(a) < Head(b)
    ELSE LexLess(Tail(a), Tail(b))

\* The number a string of digits stands for.
RECURSIVE Atoi(_)
Atoi(ds) == IF ds = <<>> THEN 0
            ELSE 10 * Atoi(SubSeq(ds, 1, Len(ds) - 1)) + (ds[Len(ds)] - Byte0)

\* The number of decimal digits of n.
Digits(n) == CHOOSE k \in 1..10 : n < 10 ^ k /\ (k > 1 => n >= 10 ^ (k - 1))

\* C22: the name of the i-th result is "cmd" followed by i written with as
\* many digits as N has, zeros in front; names of earlier checks sort
\* before names of later checks, and no two names are equal.
C22_NamesSorted ==
    /\ \A i \in 1..Len(names) :
          /\ SubSeq(names[i], 1, 3) = <<ByteC, ByteM, ByteD>>
          /\ Len(names[i]) = 3 + Digits(nChecks)
          /\ \A k \in 4..Len(names[i]) : names[i][k] \in Byte0..(Byte0 + 9)
          /\ Atoi(SubSeq(names[i], 4, Len(names[i]))) = i
    /\ \A i, k \in 1..Len(names) :
          i < k => LexLess(names[i], names[k]) /\ names[i] # names[k]

C22_Witness ==
    /\ nChecks >= 12 /\ Len(names) = nChecks
    /\ names[2] = <<ByteC, ByteM, ByteD, Byte0, Byte0 + 2>>
    /\ names[12] = <<ByteC, ByteM, ByteD, Byte0 + 1, Byte0 + 2>>

\* The steps roundDuration is said to choose from, and the nearest multiple
\* of d to t, the upper one when t is half way.
Levels == {10 ^ k : k \in 4..9}
LevelOf(t) == CHOOSE r \in Levels : r <= t /\ \A q \in Levels : q <= t => q <= r
Nearest(t, d, m) == m % d = 0 /\ 2 * (t - m) < d /\ 2 * (m - t) <= d

\* C23: roundDuration returns a duration below 10µs unchanged and any other
\* one as the nearest multiple (ties up) of a thousandth of the largest
\* step, 10µs to 1s, that does not exceed it; rounding the result again
\* changes nothing, and a shorter duration never rounds to a longer one.
C23_RoundDuration ==
    shown.by = "roundDuration" =>
        /\ dur < 10 * Microsecond => shown.d = dur
        /\ dur >= 10 * Microsecond
           => Nearest(dur, LevelOf(dur) \div 1000, shown.d)
        /\ roundDuration(shown.d) = shown.d
        /\ roundDuration(dur + 1) >= shown.d
        /\ \A u \in Durations : u <= dur => roundDuration(u) <= shown.d

C23_Witness ==
    /\ shown.by = "roundDuration"
    /\ dur = 100 * Millisecond - 1
    /\ shown.d = 100 * Millisecond

\* C24: the duration shown in the text of a command is the measured one
\* when that is below 1ms, the nearest microsecond below 1s, the nearest
\* millisecond otherwise.
C24_ShownDuration ==
    shown.by = "roundDuration" =>
        /\ dur < Millisecond => shown.d = dur
        /\ (dur >= Millisecond /\ dur < Second)
           => Nearest(dur, Microsecond, shown.d)
        /\ dur >= Second => Nearest(dur, Millisecond, shown.d)

\* The items received from one sender.
ItemsFrom(who) == {i \in 1..Len(items) : items[i].from = who}

\* C25: no goroutine ever sends on c after close(c); the flag of sync() is
\* the conjunction of the flags received; c is closed, and sync() returns,
\* only when cloneOrFetch and every spawned fetchRepo goroutine have ended,
\* each having delivered its outcome, so that none is lost.
C25_SyncFanIn ==
    /\ ~sendPanic
    /\ syncOk <=> \A i \in 1..Len(items) : items[i].ok
    /\ (cClosed \/ syncPc = "returned")
       => /\ parPc = "closed" /\ swg = 0
          /\ cfPc \in {"none", "done"}
          /\ cfPc = "done" => ItemsFrom(Primary) # {}
          /\ \A r \in 1..MaxRepos :
                /\ frPc[r] \in {"none", "done"}
                /\ frPc[r] = "done" <=> r \in walked
                /\ Cardinality(ItemsFrom(r)) = (IF r \in walked THEN 1 ELSE 0)
                /\ r \in walked => items[Lowest(ItemsFrom(r))].ok = frOk[r]

C25_Witness ==
    /\ syncPc = "returned"
    /\ Cardinality(walked) = 2
    /\ Cardinality(ItemsFrom(Primary)) = 2
    /\ Len(items) = 5
    /\ items[5].from = 1
    /\ ~syncOk

\* C26: when the walk of the cache root returned an error, the last item
\* sync() receives is the failure item of the walk, after the outcomes of
\* cloneOrFetch and of every fetchRepo goroutine, and sync() reports failure.
C26_WalkErrorReported ==
    (err1 /\ cClosed)
    => /\ items # <<>>
       /\ items[Len(items)] = setupWorkResult(Walk, FALSE)
       /\ Cardinality(ItemsFrom(Walk)) = 1
       /\ ItemsFrom(Primary) # {}
       /\ \A r \in walked : ItemsFrom(r) # {}
       /\ ~syncOk

C26_Witness ==
    /\ syncPc = "returned" /\ err1
    /\ walked # {} /\ walked # repos
    /\ cmdFailed = {<<Root, "walk">>}
    /\ ~syncOk

\* The reporting loop of job j is between its first and its last step.
InLoop(j) == lpc[j] \in {"loop", "sendchecks"}

\* The step is the reporting loop of j firing its timer, or returning.
TimerFires(j) ==
    /\ lpc[j] = "loop" /\ lpc'[j] = "loop" /\ processed'[j] = processed[j]
    /\ delay[j] = "armed" /\ delay'[j] = "nil"
LoopReturns(j) == lpc[j] = "loop" /\ lpc'[j] = "ret"
\* The step is a flush of the reporting loop of j.
Flushes(j) ==
    /\ TakesResult(j) \/ TimerFires(j) \/ LoopReturns(j)
    /\ flush'[j].kind # "none"

\* C27 (as stated): the content of every result the loop processed is sent
\* in exactly one successful gist edit; seen when the loop has returned.
C27_ExactlyOneFlush ==
    \A j \in Jobs : lpc[j] = "ret" => processed[j] \subseteq gisted[j]

\* C27 (amended): a successful gist edit empties the pending payload, a
\* failed one leaves it as it was sent, and the payload of every attempt
\* holds all that was pending; so the content of a result is accepted in at
\* most one gist edit, and a processed result that was not accepted yet is
\* still pending.
C27_PendingPayload ==
    /\ [](\A j \in Jobs :
            /\ files[j] \cap gisted[j] = {}
            /\ processed[j] = gisted[j] \cup files[j])
    /\ [][\A j \in Jobs :
            /\ Flushes(j)
               => /\ files[j] \subseteq flush'[j].files
                  /\ IF flush'[j].ok
                       THEN /\ files'[j] = {}
                            /\ flush'[j].files \cap gisted[j] = {}
                            /\ gisted'[j] = gisted[j] \cup flush'[j].files
                       ELSE /\ files'[j] = flush'[j].files
                            /\ gisted'[j] = gisted[j]
            /\ (~Flushes(j) /\ InLoop(j) /\ InLoop(j)')
               => /\ files[j] \subseteq files'[j]
                  /\ gisted'[j] = gisted[j]]_vars

\* A timer flush GitHub accepted carries the only failure of the job: the
\* immediate flush of that failure was refused, and its content went out
\* again together with a newer result.
C27_Witness ==
    \E j \in Jobs :
        /\ flush[j].kind = "timer" /\ flush[j].ok
        /\ Cardinality({f \in processed[j] : f.failed}) = 1
        /\ \E f \in flush[j].files : f.failed
        /\ \E f \in flush[j].files : ~f.failed
        /\ files[j] = {}

\* C28: an immediate flush happens only for a failing result taken when no
\* result of the job had failed before, so at most once per job; a failing
\* result taken after the first failure does not flush, and leaves or arms
\* the timer exactly as a successful result does.
C28_OneImmediateFlush ==
    [][\A j \in Jobs :
        /\ (Flushes(j) /\ flush'[j].kind = "immediate")
           => /\ TakesResult(j)
              /\ ~Head(results[j]).success
              /\ failed[j] = 0 /\ failed'[j] = 1
              /\ ~FailureSeen(j)
              /\ FileName(Head(results[j])) \in flush'[j].files
        /\ (TakesResult(j) /\ ~Head(results[j]).success /\ failed[j] # 0)
           => /\ flush'[j].kind = "none"
              /\ delay'[j] = "armed"
              /\ FileName(Head(results[j])) \in files'[j]
              /\ attempted'[j] = attempted[j]
              /\ sent'[j] = sent[j]
        /\ (TakesResult(j) /\ flush'[j].kind # "none")
           => flush'[j].kind = "immediate"]_vars

\* The second failing result of a job was taken and is waiting for the
\* timer, the first one having been flushed at once.
C28_Witness ==
    \E j \in Jobs :
        /\ failed[j] = 2 /\ lpc[j] = "loop"
        /\ flush[j].kind = "none" /\ delay[j] = "armed"
        /\ \E f \in files[j] : f.failed
        /\ \E f \in gisted[j] : f.failed

\* C29: the reporting loop is a machine of two states, idle (delay nil) and
\* flush-scheduled (delay armed).  Between two iterations an idle loop has
\* no processed result that was never part of a flush attempt.  Taking a
\* result leaves the loop flush-scheduled, unless the result is the first
\* failure, which leaves it idle; the timer firing leaves it idle; nothing
\* else moves the machine.
C29_TwoStateMachine ==
    /\ [](\A j \in Jobs :
            /\ delay[j] \in {"nil", "armed"}
            /\ (InLoop(j) /\ delay[j] = "nil")
               => processed[j] \subseteq attempted[j]
            /\ (InLoop(j) /\ delay[j] = "armed")
               => ~(processed[j] \subseteq attempted[j]))
    /\ [][\A j \in Jobs :
            /\ TakesResult(j)
               => delay'[j] = IF ~Head(results[j]).success /\ failed[j] = 0
                                THEN "nil" ELSE "armed"
            /\ (Flushes(j) /\ flush'[j].kind = "timer")
               => delay[j] = "armed" /\ delay'[j] = "nil"
            /\ (InLoop(j) /\ InLoop(j)' /\ delay'[j] # delay[j])
               => TakesResult(j) \/ TimerFires(j)]_vars

\* The loop is flush-scheduled for the second time: a timer flush was made
\* (nothing failed), and a later result armed the timer again.
C29_Witness ==
    \E j \in Jobs :
        /\ lpc[j] = "loop" /\ delay[j] = "armed"
        /\ failed[j] = 0
        /\ attempted[j] # {}
        /\ processed[j] \ attempted[j] # {}

\* The results of the pipeline goroutine that are buffered in the channel
\* (setup-3-checks is put there by the loop itself).
IsPipeResult(r) == r.name # "setup-3-checks"
PipeBuffered(j) == SelectSeq(results[j], IsPipeResult)
\* The names the loop gives the first n results the pipeline sent.
MarkedUpTo(j, n) == {Marked(emitted[j][i]) : i \in 1..n}
IsSetup(e) == e.name \in {"setup-1-sync", "setup-2-get"}

\* C30: while the loop of a job runs, the results the pipeline goroutine
\* sent are, in order, those already processed followed by those still
\* buffered, all different, so none is lost or taken twice; a step that
\* takes a result removes the head of the channel and processes a result
\* not processed before; and the loop returns only when the goroutine has
\* closed the channel, after the last check or after a failing setup phase,
\* with nothing buffered and every result sent processed.
C30_ExactlyOnce ==
    /\ [](\A j \in Jobs : rpc[j] = "inner" =>
            LET n == Len(emitted[j])
                b == Len(PipeBuffered(j))
            IN /\ b <= n
               /\ Cardinality(MarkedUpTo(j, n)) = n
               /\ processed[j] \ {Setup3} = MarkedUpTo(j, n - b)
               /\ \A k \in 1..b : PipeBuffered(j)[k] = emitted[j][n - b + k])
    /\ [][\A j \in Jobs :
            /\ TakesResult(j)
               => /\ results[j] # <<>>
                  /\ results'[j] = Tail(results[j])
                  /\ FileName(Head(results[j])) \notin processed[j]
                  /\ processed'[j] = processed[j] \cup {FileName(Head(results[j]))}
            /\ (InLoop(j) /\ ~TakesResult(j)) => processed'[j] = processed[j]
            /\ LoopReturns(j)
               => /\ closed[j] /\ gpc[j] = "closed"
                  /\ results[j] = <<>>
                  /\ processed[j] \ {Setup3} = MarkedUpTo(j, Len(emitted[j]))
                  /\ emitted[j] # <<>>
                  /\ LET last == emitted[j][Len(emitted[j])]
                     IN \/ IsSetup(last) /\ ~last.success
                        \/ /\ Len(CheckResults(j)) = checks[j]
                           /\ \A i \in 1..Len(emitted[j]) :
                                 IsSetup(emitted[j][i]) => emitted[j][i].success]_vars

\* The loop returned after both setup results and two check results were
\* sent, and these and setup-3-checks were processed.
C30_Witness ==
    \E j \in Jobs :
        /\ Returning(j)
        /\ Len(emitted[j]) = 4
        /\ Cardinality(processed[j]) = 5
        /\ closed[j] /\ results[j] = <<>>

\* C31: no send is attempted on a closed results channel: the process never
\* panics in a send, and the loop is never about to send setup-3-checks on
\* a channel the pipeline goroutine has closed.
C31_NoSendOnClosed ==
    /\ ~crashed
    /\ \A j \in Jobs : lpc[j] = "sendchecks" => ~closed[j]

\* The loop of j is blocked for ever in its own send: the channel is full,
\* the pipeline goroutine is blocked in a send of its own, and the loop, the
\* only receiver, is a sender.
LoopSendBlocked(j) ==
    /\ lpc[j] = "sendchecks" /\ gpc[j] = "emit"
    /\ ~closed[j] /\ Len(results[j]) = ResultsCap

\* C32: a job whose commands and GitHub calls all return never gets stuck
\* inside runJobRequestInner: the process does not panic there and the loop
\* is never blocked in its own send into a full results channel.
C32_NeverStuck ==
    \A j \in Jobs : rpc[j] = "inner" => ~crashed /\ ~LoopSendBlocked(j)

\* C33: when the reporting loop of a job returns and no GitHub call failed,
\* the status GitHub shows is "success" if no result failed and "failure"
\* otherwise, whatever the length of the check list.
C33_NeverStaysPending ==
    \A j \in Jobs :
        (Returning(j) /\ faults = MaxFaults)
        => pub[j].state = IF FailureSeen(j) THEN "failure" ELSE "success"

\* C34: every flush of the reporting loop carries a result that was
\* processed and was in no earlier flush attempt, and only processed
\* results; so each flush adds to the attempted results, which are among
\* the processed ones, and a job has no more flushes than processed results.
C34_BoundedFlushes ==
    /\ [](\A j \in Jobs : attempted[j] \subseteq processed[j])
    /\ [][\A j \in Jobs :
            /\ Flushes(j)
               => /\ flush'[j].files \ attempted[j] # {}
                  /\ flush'[j].files \subseteq processed'[j]
                  /\ attempted'[j] = attempted[j] \cup flush'[j].files
                  /\ Cardinality(attempted'[j]) > Cardinality(attempted[j])
            /\ (InLoop(j) /\ ~Flushes(j)) => attempted'[j] = attempted[j]]_vars

\* The last flush of a job that flushed before: it carries two results
\* taken since the earlier flush.
C34_Witness ==
    \E j \in Jobs :
        /\ Returning(j) /\ flush[j].kind = "final"
        /\ attempted[j] \ flush[j].files # {}
        /\ Cardinality(flush[j].files) = 2
        /\ faults = MaxFaults

\* C35: a pending timer is the one created for the first result that was in
\* no flush attempt yet; a result taken while it is pending and not flushed
\* at once leaves that very timer in place, and the only thing that ends it
\* before it fires is the immediate flush of a first failure.
C35_TimerNotPostponed ==
    /\ [](\A j \in Jobs :
            /\ delay[j] = "nil" <=> armedAt[j] = 0
            /\ (InLoop(j) /\ delay[j] = "armed")
               => armedAt[j] = Cardinality(attempted[j]) + 1)
    /\ [][\A j \in Jobs :
            /\ (TakesResult(j) /\ delay[j] = "armed" /\ flush'[j].kind = "none")
               => /\ delay'[j] = "armed"
                  /\ armedAt'[j] = armedAt[j]
            /\ (TakesResult(j) /\ delay[j] = "nil" /\ flush'[j].kind = "none")
               => /\ delay'[j] = "armed"
                  /\ armedAt'[j] = Cardinality(processed'[j])
            /\ (InLoop(j) /\ armedAt[j] # 0 /\ armedAt'[j] # armedAt[j])
               => /\ Flushes(j)
                  /\ armedAt'[j] = 0
                  /\ processed'[j] \subseteq attempted'[j]]_vars

\* C36: a job that was queued and is not kept waiting by a job inside
\* runJobRequest can still take the mutex and run: the process has neither
\* panicked nor left runServer.
C36_QueuedJobRuns ==
    \A j \in Jobs :
        (rpc[j] = "queued" /\ mu = NoJob /\ \A k \in Jobs : ~Inside(k))
        => Alive

\* The jobs whose enqueueCheck is running, those queued or inside
\* runJobRequest, and those inside runJobRequestInner.
Enqueuing == {j \in Jobs : epc[j] \notin {"idle", "returned"}}
Outstanding == {j \in Jobs : rpc[j] \in {"queued", "locked", "inner", "post"}}
InInner == {j \in Jobs : rpc[j] = "inner"}

\* C37: the wait-group counter is never negative and is greater than zero
\* from the entry of enqueueCheck for a job until enqueueCheck has returned
\* and, when the job was queued, until its runJobRequest has returned: it
\* counts exactly the running enqueueCheck calls, the queued or running
\* jobs and the running inner loops.
C37_CounterNoGap ==
    /\ wg >= 0
    /\ \A j \in Enqueuing \cup Outstanding : wg > 0
    /\ wg = Cardinality(Enqueuing) + Cardinality(Outstanding) + Cardinality(InInner)

\* The hand-over: enqueueCheck of a queued job has returned and only the
\* count taken for its goroutine keeps the counter above zero.
C37_Witness ==
    \E j \in Jobs :
        /\ epc[j] = "returned" /\ rpc[j] = "queued"
        /\ wg = 1 /\ spc = "serving"

\* C38: when the commit hash of a job cannot be resolved, enqueueCheck
\* returns from there: it creates no gist, publishes no status and starts
\* no goroutine, the mutex is untouched and the counter is back to what it
\* was before the call (zero for a worker with this job only).
C38_UnresolvedHash ==
    /\ [](\A j \in Jobs :
            (epc[j] = "returned" /\ rpc[j] = "none" /\ faults = MaxFaults)
            => /\ pending[j] = "none"
               /\ pub[j] = NoStatus /\ sent[j] = NoStatus
               /\ gpc[j] = "none" /\ lpc[j] = "none"
               /\ phases[j] \in {<<>>, <<"ls-remote">>}
               /\ mu = NoJob /\ wg = 0)
    /\ [][\A j \in Jobs :
            /\ (epc[j] = "hash" /\ epc'[j] # "hash")
               => /\ epc'[j] \in {"gist", "returned"}
                  /\ UNCHANGED <<mu, faults, pending, pub, sent, rpc, gpc, lpc>>
                  /\ wg' = IF epc'[j] = "returned" THEN wg - 1 ELSE wg
            /\ (epc[j] = "hash" /\ epc'[j] # "hash" /\ phases'[j] = phases[j])
               => epc'[j] = "returned"]_vars

\* enqueueCheck has returned after `git ls-remote` gave no hash.
C38_Witness ==
    \E j \in Jobs :
        /\ epc[j] = "returned" /\ rpc[j] = "none"
        /\ faults = MaxFaults
        /\ phases[j] = <<"ls-remote">>
        /\ wg = 0

\* C39: enqueueCheck never waits for the mutex of runJobRequest: whoever
\* holds it, each of its steps can be taken as long as the process runs,
\* and none of its steps touches the mutex.
C39_EnqueueAsync ==
    /\ [](\A j \in Jobs : Alive =>
            /\ epc[j] = "hash" => ENABLED findCommitHash(j, TRUE, TRUE)
            /\ epc[j] = "gist" => ENABLED createGist(j, TRUE)
            /\ epc[j] = "status" => ENABLED publishPending(j, TRUE)
            /\ epc[j] = "spawn" => ENABLED enqueueSpawn(j)
            /\ epc[j] = "defer" => ENABLED enqueueReturn(j))
    /\ [][\A j \in Jobs : epc'[j] # epc[j] => mu' = mu]_vars

\* enqueueCheck of a job has published the pending status, started the
\* goroutine and is returning while an earlier job holds the mutex in its
\* reporting loop.
C39_Witness ==
    \E j, k \in Jobs :
        /\ k < j /\ mu = k /\ rpc[k] = "inner"
        /\ epc[j] = "defer" /\ rpc[j] = "queued" /\ pending[j] = "ok"

====
